---- MODULE Spec2Model ----
(***************************************************************************)
(* Model of the audit trail of swaptrade-contracts                         *)
(* (counter/src/audit_tools/audit_log.rs), of the forensic CLI that        *)
(* consumes its exports (counter/src/audit_tools/main.rs), and of the      *)
(* governance contract and its admin controller                            *)
(* (counter/src/governance/governance.rs, counter/src/admin.rs).           *)
(*                                                                         *)
(* Conventions.                                                            *)
(*  - A byte string is written as its lowercase hex text, two characters   *)
(*    per byte: the bytes of "ab" are "6162", 21000u64.to_le_bytes() is    *)
(*    "0852000000000000".  Concatenation of byte strings is \o.            *)
(*  - A 32-byte array ([u8; 32]) is a "block": <<"raw", bytes>> for an     *)
(*    array given by its 32 bytes, <<"sha", stream>> for the SHA-256       *)
(*    digest of the byte stream `stream`.  SHA-256 is idealised: two       *)
(*    digests are equal exactly when their input streams are equal, and    *)
(*    no digest equals a raw array.                                        *)
(*  - A byte stream (what a hasher has been fed) is a sequence of chunks,  *)
(*    <<"bytes", s>> or a digest block, in which adjacent byte runs are    *)
(*    merged: feeding "ab" then "c" gives the same stream as feeding "a"   *)
(*    then "bc", as it does for Sha256::update.                            *)
(*  - Rust indexes from 0; positions in TLA+ sequences start at 1.  The    *)
(*    id index and Merkle leaf indexes keep the 0-based numbers of the     *)
(*    source and are shifted where a sequence is accessed.                 *)
(*  - Clock readings are counted in units of 30 s instead of 1 ns so that  *)
(*    the window and retention lengths fit the checker's integers; the     *)
(*    governance clock is counted in seconds.                              *)
(***************************************************************************)
EXTENDS Integers, Sequences, FiniteSets, TLC

\* ---------------------------------------------------------------- bounds
MaxRecords == 3
MaxClock == 2
MaxTamper == 2
MaxTamperRecords == 2
MaxLeaves == 5
MaxTimelockCalls == 4
MaxMultiSigCalls == 5
MaxAdminCalls == 2
MaxDelayCalls == 2
MaxOverrideCalls == 2
MaxMonths == 17
MaxTickCalls == 3
MaxInspected == 58
MaxSlidingRecords == 52
MaxBatchRecords == 101
MaxSkewRecords == 3
MaxMirrorCalls == 4

\* ------------------------------------------------------- program constants
MAX_BATCH_SIZE == 100
TRADE_WINDOW_NS == 2
MAX_TRADES_PER_WINDOW == 50
MAX_ADMIN_PER_WINDOW == 5
DEFAULT_HOT_RETENTION_NS == 259200

\* ---------------------------------------------------------------- options
None == <<"None">>
Some(x) == <<"Some", x>>
IsSome(o) == o[1] = "Some"
Unwrap(o) == o[2]

\* ------------------------------------------------------------ byte streams
HexDigits ==
    <<"0", "1", "2", "3", "4", "5", "6", "7", "8", "9", "a", "b", "c", "d",
      "e", "f">>
HexByte(b) == HexDigits[(b \div 16) + 1] \o HexDigits[(b % 16) + 1]

\* `width` zero bytes: the high-order bytes of a little-endian integer.
RECURSIVE Zeros(_)
Zeros(width) == IF width = 0 THEN "" ELSE "00" \o Zeros(width - 1)
ZeroBytes == [width \in 0..32 |-> Zeros(width)]

\* {integer}::to_le_bytes(): the `width` bytes of v, lowest first.
RECURSIVE to_le_bytes(_, _)
to_le_bytes(v, width) ==
    IF width = 0 THEN ""
    ELSE IF v = 0 THEN ZeroBytes[width]
    ELSE HexByte(v % 256) \o to_le_bytes(v \div 256, width - 1)

\* The array whose first byte is n and whose other 31 bytes are 0 (the
\* tests' state(n)); [0u8; 32] is Raw(0).
Raw(n) == <<"raw", to_le_bytes(n, 32)>>
ZeroHash == Raw(0)

\* The bytes a hasher receives for one `update` argument.
Bytes(s) == IF s = "" THEN <<>> ELSE << <<"bytes", s>> >>
BlockBytes(b) == IF b[1] = "raw" THEN Bytes(b[2]) ELSE <<b>>

\* Sha256::update: append to the stream fed so far.
HashUpdate(h, data) ==
    IF Len(data) = 0 THEN h
    ELSE IF Len(h) = 0 THEN data
    ELSE IF h[Len(h)][1] = "bytes" /\ data[1][1] = "bytes"
         THEN SubSeq(h, 1, Len(h) - 1)
              \o << <<"bytes", h[Len(h)][2] \o data[1][2]>> >>
              \o SubSeq(data, 2, Len(data))
         ELSE h \o data

\* Sha256::new() ... finalize()
Sha256New == <<>>
Finalize(h) == <<"sha", h>>

\* hex::encode of a block: an injective rendering of its 32 bytes as a
\* string, which is never mistaken for the array it renders.
HexEncode(b) == ToString(b)

\* ------------------------------------------------------------ AuditEvent
PreimageFields ==
    {"id", "timestamp", "actor", "action", "target", "result", "gas_used",
     "state_hash", "prev_hash"}

compute_hash(e) ==
    LET h1 == HashUpdate(Sha256New, Bytes(to_le_bytes(e.id, 8)))
        h2 == HashUpdate(h1, Bytes(to_le_bytes(e.timestamp, 16)))
        h3 == HashUpdate(h2, Bytes(e.actor))
        h4 == HashUpdate(h3, Bytes(e.action))
        h5 == HashUpdate(h4, Bytes(e.target))
        h6 == HashUpdate(h5, Bytes(e.result))
        h7 == HashUpdate(h6, Bytes(to_le_bytes(e.gas_used, 8)))
        h8 == HashUpdate(h7, BlockBytes(e.state_hash))
        h9 == HashUpdate(h8, BlockBytes(e.prev_hash))
    IN  Finalize(h9)

is_self_consistent(e) == e.event_hash = compute_hash(e)

\* ------------------------------------------------------------ MerkleTree
HashPair(l, r) ==
    Finalize(HashUpdate(HashUpdate(Sha256New, BlockBytes(l)), BlockBytes(r)))

\* One pass of `for chunk in current.chunks(2)`.
NextLevel(current) ==
    [k \in 1..((Len(current) + 1) \div 2) |->
        HashPair(current[2 * k - 1],
                 IF 2 * k <= Len(current) THEN current[2 * k]
                 ELSE current[2 * k - 1])]

RECURSIVE BuildLevels(_)
BuildLevels(current) ==
    IF Len(current) > 1
    THEN <<current>> \o BuildLevels(NextLevel(current))
    ELSE <<current>>

MerkleBuild(hashes) ==
    IF Len(hashes) = 0 THEN [leaves |-> <<>>, levels |-> <<>>]
    ELSE [leaves |-> hashes, levels |-> BuildLevels(hashes)]

MerkleRoot(t) ==
    IF Len(t.levels) = 0 THEN None
    ELSE IF Len(t.levels[Len(t.levels)]) = 0 THEN None
    ELSE Some(t.levels[Len(t.levels)][1])

\* Variant: an odd trailing node is paired with the zero array instead of
\* with itself.
ProofSibling_ZeroPad(level, idx) ==
    IF idx % 2 = 0
    THEN IF idx + 1 < Len(level) THEN level[idx + 2] ELSE ZeroHash
    ELSE level[idx]

\* The sibling pushed at one level for the 0-based running index idx.
ProofSibling(level, idx) ==
    IF idx % 2 = 0
    THEN IF idx + 1 < Len(level) THEN level[idx + 2] ELSE level[idx + 1]
    ELSE level[idx]

RECURSIVE ProofFrom(_, _, _)
ProofFrom(levels, l, idx) ==
    IF l > Len(levels) - 1 THEN <<>>
    ELSE <<ProofSibling(levels[l], idx)>> \o ProofFrom(levels, l + 1, idx \div 2)

MerkleProof(t, index) == ProofFrom(t.levels, 1, index)

\* ------------------------------------------------- CLI (main.rs) helpers
\* main.rs keeps its own copy of the event hash and of the Merkle fold.
recompute_hash(e) ==
    LET h1 == HashUpdate(Sha256New, Bytes(to_le_bytes(e.id, 8)))
        h2 == HashUpdate(h1, Bytes(to_le_bytes(e.timestamp, 16)))
        h3 == HashUpdate(h2, Bytes(e.actor))
        h4 == HashUpdate(h3, Bytes(e.action))
        h5 == HashUpdate(h4, Bytes(e.target))
        h6 == HashUpdate(h5, Bytes(e.result))
        h7 == HashUpdate(h6, Bytes(to_le_bytes(e.gas_used, 8)))
        h8 == HashUpdate(h7, BlockBytes(e.state_hash))
        h9 == HashUpdate(h8, BlockBytes(e.prev_hash))
    IN  Finalize(h9)

RECURSIVE merkle_root_pairs(_)
merkle_root_pairs(current) ==
    IF Len(current) = 0 THEN <<>>
    ELSE IF Len(current) = 1
         THEN <<Finalize(HashUpdate(HashUpdate(Sha256New, BlockBytes(current[1])),
                                    BlockBytes(current[1])))>>
         ELSE <<Finalize(HashUpdate(HashUpdate(Sha256New, BlockBytes(current[1])),
                                    BlockBytes(current[2])))>>
              \o merkle_root_pairs(SubSeq(current, 3, Len(current)))

RECURSIVE merkle_root_loop(_)
merkle_root_loop(current) ==
    IF Len(current) > 1 THEN merkle_root_loop(merkle_root_pairs(current))
    ELSE current

merkle_root(hashes) ==
    IF Len(hashes) = 0 THEN None
    ELSE Some(merkle_root_loop(hashes)[1])

\* Option::map(hex::encode)
HexEncodeOption(o) == IF IsSome(o) THEN Some(HexEncode(Unwrap(o))) ELSE None

EventHashes(ev) == [i \in 1..Len(ev) |-> ev[i].event_hash]

\* cmd_merkle_check: TRUE when the command prints "Merkle root matches".
cmd_merkle_check(report) ==
    report.merkle_root = HexEncodeOption(merkle_root(EventHashes(report.events)))

\* ----------------------------------------------------------- AuditLog
\* Variant: every new event is linked to the all-zero hash.
LinkTarget_Genesis(ev) == ZeroHash

\* record, line 337: the hash the new event is linked to.
LinkTarget(ev) ==
    IF Len(ev) = 0 THEN ZeroHash ELSE ev[Len(ev)].event_hash

NewEvent(id, ts, inp, prev) ==
    LET e == [id |-> id, timestamp |-> ts, actor |-> inp.actor,
              action |-> inp.action, target |-> inp.target,
              result |-> inp.result, gas_used |-> inp.gas_used,
              state_hash |-> inp.state_hash, category |-> inp.category,
              severity |-> inp.severity, prev_hash |-> prev,
              event_hash |-> ZeroHash]
    IN  [e EXCEPT !.event_hash = compute_hash(e)]

\* Variant: the alert is raised when the count reaches the limit.
CheckWindow_AtLimit(window, alert_counter, e, limit, sev, nowv) ==
    LET entry == IF e.actor \in DOMAIN window THEN window[e.actor]
                 ELSE <<e.timestamp, 0>>
        put(v) == [a \in DOMAIN window \cup {e.actor} |->
                      IF a = e.actor THEN v ELSE window[a]]
    IN  IF e.timestamp - entry[1] > TRADE_WINDOW_NS
        THEN [window |-> put(<<e.timestamp, 1>>),
              alert_counter |-> alert_counter, alert |-> None]
        ELSE IF entry[2] + 1 >= limit
             THEN [window |-> put(<<entry[1], entry[2] + 1>>),
                   alert_counter |-> alert_counter + 1,
                   alert |-> Some([alert_id |-> alert_counter + 1,
                                   detected_at |-> nowv,
                                   actor |-> e.actor,
                                   count |-> entry[2] + 1,
                                   related_event_ids |-> <<e.id>>,
                                   severity |-> sev])]
             ELSE [window |-> put(<<entry[1], entry[2] + 1>>),
                   alert_counter |-> alert_counter, alert |-> None]

\* AnomalyDetector::check_trade_volume / check_admin_burst share one shape:
\* the window map, the limit and the alert severity differ.
CheckWindow(window, alert_counter, e, limit, sev, nowv) ==
    LET entry == IF e.actor \in DOMAIN window THEN window[e.actor]
                 ELSE <<e.timestamp, 0>>
        put(v) == [a \in DOMAIN window \cup {e.actor} |->
                      IF a = e.actor THEN v ELSE window[a]]
    IN  IF e.timestamp - entry[1] > TRADE_WINDOW_NS
        THEN [window |-> put(<<e.timestamp, 1>>),
              alert_counter |-> alert_counter, alert |-> None]
        ELSE IF entry[2] + 1 > limit
             THEN [window |-> put(<<entry[1], entry[2] + 1>>),
                   alert_counter |-> alert_counter + 1,
                   alert |-> Some([alert_id |-> alert_counter + 1,
                                   detected_at |-> nowv,
                                   actor |-> e.actor,
                                   count |-> entry[2] + 1,
                                   related_event_ids |-> <<e.id>>,
                                   severity |-> sev])]
             ELSE [window |-> put(<<entry[1], entry[2] + 1>>),
                   alert_counter |-> alert_counter, alert |-> None]

\* AnomalyDetector::inspect
inspect(d, e, nowv) ==
    IF e.category = "Trading"
    THEN LET r == CheckWindow(d.trade_window, d.alert_counter, e,
                              MAX_TRADES_PER_WINDOW, "Warning", nowv)
         IN  [detector |-> [d EXCEPT !.trade_window = r.window,
                                     !.alert_counter = r.alert_counter],
              alert |-> r.alert]
    ELSE IF e.category = "Administrative"
    THEN LET r == CheckWindow(d.admin_window, d.alert_counter, e,
                              MAX_ADMIN_PER_WINDOW, "Critical", nowv)
         IN  [detector |-> [d EXCEPT !.admin_window = r.window,
                                     !.alert_counter = r.alert_counter],
              alert |-> r.alert]
    ELSE [detector |-> d, alert |-> None]

\* event.timestamp - entry.0 (lines 182 and 207) on u128 operands when the
\* event is stamped before the start of the actor's window.
Underflows(window, e) ==
    e.actor \in DOMAIN window /\ e.timestamp < window[e.actor][1]

\* AnomalyDetector::inspect as the build executes it. When the subtraction
\* underflows, a build with overflow checks (the dev and test profiles)
\* panics, and a build without them wraps to a difference of nearly 2^128,
\* which exceeds the window length, so that the window is reopened.
inspect_on_build(d, e, nowv, overflow_checks) ==
    LET trading == e.category = "Trading"
        counted == e.category \in {"Trading", "Administrative"}
        window == IF trading THEN d.trade_window ELSE d.admin_window
        reopened == [a \in DOMAIN window |->
                        IF a = e.actor THEN <<e.timestamp, 1>> ELSE window[a]]
    IN  IF counted /\ Underflows(window, e)
        THEN IF overflow_checks
             THEN [panic |-> TRUE, detector |-> d, alert |-> None]
             ELSE [panic |-> FALSE,
                   detector |-> IF trading
                                THEN [d EXCEPT !.trade_window = reopened]
                                ELSE [d EXCEPT !.admin_window = reopened],
                   alert |-> None]
        ELSE [panic |-> FALSE, detector |-> inspect(d, e, nowv).detector,
              alert |-> inspect(d, e, nowv).alert]

rebuild_merkle(ev) ==
    IF Len(ev) = 0 THEN None ELSE Some(MerkleBuild(EventHashes(ev)))

\* Variant: the operands of the subtraction are swapped.
Cutoff_Swapped(nowv, hot) == IF hot >= nowv THEN hot - nowv ELSE 0

\* now_ns().saturating_sub(hot_retention_ns)
Cutoff(nowv, hot) == IF nowv >= hot THEN nowv - hot ELSE 0

\* Variant: an event stamped exactly at the cutoff is dropped.
IsRetained_Strict(e, cutoff) == e.timestamp > cutoff

IsExpired(e, cutoff) == e.timestamp < cutoff
IsRetained(e, cutoff) == e.timestamp >= cutoff

Expired(ev, cutoff) == SelectSeq(ev, LAMBDA e : IsExpired(e, cutoff))
Retained(ev, cutoff) == SelectSeq(ev, LAMBDA e : IsRetained(e, cutoff))

Ids(ev) == [i \in 1..Len(ev) |-> ev[i].id]
IdSet(ev) == {ev[i].id : i \in 1..Len(ev)}
Max(S) == CHOOSE x \in S : \A y \in S : y <= x

\* index.clear(); for (i, e) in events.iter().enumerate() { insert(e.id, i) }
BuildIndex(ev) ==
    [k \in IdSet(ev) |-> Max({i \in 1..Len(ev) : ev[i].id = k}) - 1]

\* Variant: the drained batch is put in front of the committed events.
DrainEvents_Prepend(ev, pend) == pend \o ev

\* flush_batch, lines 375-379: drain the pending batch into storage.
DrainEvents(ev, pend) == ev \o pend
DrainIndex(idx, ev, pend) ==
    [k \in DOMAIN idx \cup IdSet(pend) |->
        IF k \in IdSet(pend)
        THEN Len(ev) + Max({j \in 1..Len(pend) : pend[j].id = k}) - 1
        ELSE idx[k]]

\* Variant: eviction forgets to rebuild the Merkle tree.
apply_retention_StaleMerkle(L, nowv, policy) ==
    LET cutoff == Cutoff(nowv, policy.hot_retention_ns)
        expired == Expired(L.events, cutoff)
        kept == Retained(L.events, cutoff)
    IN  IF Len(expired) # 0
        THEN [L EXCEPT !.archived = IF policy.archive_hook
                                    THEN Append(L.archived, Ids(expired))
                                    ELSE L.archived,
                       !.events = kept,
                       !.index = BuildIndex(kept)]
        ELSE L

\* Variant: the sink is called once for each expired event.
RECURSIVE ArchiveEach(_, _)
ArchiveEach(archived, ids) ==
    IF Len(ids) = 0 THEN archived
    ELSE ArchiveEach(Append(archived, <<ids[1]>>), Tail(ids))
apply_retention_PerEvent(L, nowv, policy) ==
    LET cutoff == Cutoff(nowv, policy.hot_retention_ns)
        expired == Expired(L.events, cutoff)
        kept == Retained(L.events, cutoff)
    IN  IF Len(expired) # 0
        THEN [L EXCEPT !.archived = IF policy.archive_hook
                                    THEN ArchiveEach(L.archived, Ids(expired))
                                    ELSE L.archived,
                       !.events = kept,
                       !.index = BuildIndex(kept),
                       !.merkle = rebuild_merkle(kept)]
        ELSE L

\* AuditLog::apply_retention on a log value L (see LogValue) at clock reading
\* nowv; the archive sink receives the ids of the expired events in one call.
apply_retention(L, nowv, policy) ==
    LET cutoff == Cutoff(nowv, policy.hot_retention_ns)
        expired == Expired(L.events, cutoff)
        kept == Retained(L.events, cutoff)
    IN  IF Len(expired) # 0
        THEN [L EXCEPT !.archived = IF policy.archive_hook
                                    THEN Append(L.archived, Ids(expired))
                                    ELSE L.archived,
                       !.events = kept,
                       !.index = BuildIndex(kept),
                       !.merkle = rebuild_merkle(kept)]
        ELSE L

flush_batch(L, nowv, policy) ==
    IF Len(L.pending_batch) = 0 THEN L
    ELSE LET drained == [L EXCEPT
                 !.events = DrainEvents(L.events, L.pending_batch),
                 !.index = DrainIndex(L.index, L.events, L.pending_batch),
                 !.pending_batch = <<>>]
             rebuilt == [drained EXCEPT !.merkle = rebuild_merkle(drained.events)]
         IN  apply_retention(rebuilt, nowv, policy)

NextCounter(c) == c + 1

\* Variant: every record flushes the batch.
record_Eager(L, e, nowv, policy) ==
    LET pushed == [L EXCEPT !.counter = e.id,
                            !.pending_batch = Append(L.pending_batch, e)]
    IN  flush_batch(pushed, nowv, policy)

\* Variant: the batch is flushed once it holds more than MAX_BATCH_SIZE.
record_LateFlush(L, e, nowv, policy) ==
    LET pushed == [L EXCEPT !.counter = e.id,
                            !.pending_batch = Append(L.pending_batch, e)]
    IN  IF Len(pushed.pending_batch) > MAX_BATCH_SIZE
        THEN flush_batch(pushed, nowv, policy)
        ELSE pushed

\* AuditLog::record on a log value; the detector is handled by the action.
record(L, e, nowv, policy) ==
    LET pushed == [L EXCEPT !.counter = e.id,
                            !.pending_batch = Append(L.pending_batch, e)]
    IN  IF Len(pushed.pending_batch) >= MAX_BATCH_SIZE
        THEN flush_batch(pushed, nowv, policy)
        ELSE pushed

\* ------------------------------------------------------------- queries
\* Variant: the events strictly before until_id are replayed.
reconstruct_state_at_Before(ev, until_id) ==
    LET n == Cardinality({k \in 1..Len(ev) :
                             \A i \in 1..k : ev[i].id < until_id})
    IN  IF n = 0 THEN None ELSE Some(ev[n].state_hash)

\* AuditLog::reconstruct_state_at: iter().take_while(id <= until_id).last();
\* n is the length of the prefix take_while yields.
reconstruct_state_at(ev, until_id) ==
    LET n == Cardinality({k \in 1..Len(ev) :
                             \A i \in 1..k : ev[i].id <= until_id})
    IN  IF n = 0 THEN None ELSE Some(ev[n].state_hash)

\* verify_event_integrity: the three error strings are told apart by `kind`;
\* `at` is the predecessor the chain-broken message names.
verify_event_integrity(ev, idx, mk, event_id) ==
    IF event_id \notin DOMAIN idx
    THEN [kind |-> "NotFound", id |-> event_id, at |-> 0, root |-> ZeroHash]
    ELSE LET i == idx[event_id]
             event == ev[i + 1]
         IN  IF ~is_self_consistent(event)
             THEN [kind |-> "HashMismatch", id |-> event_id, at |-> 0,
                   root |-> ZeroHash]
             ELSE IF i > 0 /\ event.prev_hash # ev[i].event_hash
             THEN [kind |-> "ChainBroken", id |-> event_id,
                   at |-> event_id - 1, root |-> ZeroHash]
             ELSE [kind |-> "Ok", id |-> event_id, at |-> 0,
                   root |-> IF IsSome(mk) /\ IsSome(MerkleRoot(Unwrap(mk)))
                            THEN Unwrap(MerkleRoot(Unwrap(mk)))
                            ELSE ZeroHash]

\* verify_chain: "Ok", or the first failure with the id printed and the
\* 1-based position of the failing event.
RECURSIVE verify_chain_from(_, _)
verify_chain_from(ev, i) ==
    IF i > Len(ev) THEN [kind |-> "Ok", id |-> 0, pos |-> 0]
    ELSE IF ~is_self_consistent(ev[i])
    THEN [kind |-> "HashInvalid", id |-> ev[i].id, pos |-> i]
    ELSE IF i > 1 /\ ev[i].prev_hash # ev[i - 1].event_hash
    THEN [kind |-> "PrevHashMismatch", id |-> ev[i].id, pos |-> i]
    ELSE verify_chain_from(ev, i + 1)

verify_chain(ev) == verify_chain_from(ev, 1)

\* format_ns: whole seconds of a clock reading (one unit is 30 s).
format_ns(ts) == ts * 30

SiemRecord(e) ==
    [event_id |-> e.id, timestamp_iso |-> format_ns(e.timestamp),
     actor |-> e.actor, action |-> e.action, target |-> e.target,
     result |-> e.result, category |-> e.category, severity |-> e.severity,
     integrity_hash |-> HexEncode(e.event_hash)]

forensic_export(ev, mk, incident_id, nowv) ==
    [incident_id |-> incident_id,
     generated_at |-> nowv,
     events |-> ev,
     merkle_root |-> IF IsSome(mk)
                     THEN HexEncodeOption(MerkleRoot(Unwrap(mk)))
                     ELSE None,
     chain_valid |-> verify_chain(ev).kind = "Ok",
     siem_records |-> [i \in 1..Len(ev) |-> SiemRecord(ev[i])]]

\* EventFilter and query_events: each hit is the event, its proof and (for
\* the reader of this model) the 0-based index the proof was built for.
SeverityRank(s) ==
    CASE s = "Info" -> 0 [] s = "Warning" -> 1 [] s = "Critical" -> 2
      [] s = "Emergency" -> 3

Matches(f, e) ==
    /\ (IsSome(f.actor) => e.actor = Unwrap(f.actor))
    /\ (IsSome(f.action) => e.action = Unwrap(f.action))
    /\ (IsSome(f.category) => e.category = Unwrap(f.category))
    /\ (IsSome(f.severity_min) =>
           SeverityRank(e.severity) >= SeverityRank(Unwrap(f.severity_min)))
    /\ (IsSome(f.time_from) => e.timestamp >= Unwrap(f.time_from))
    /\ (IsSome(f.time_to) => e.timestamp <= Unwrap(f.time_to))

query_events(ev, mk, f) ==
    LET hits == SelectSeq([i \in 1..Len(ev) |-> i], LAMBDA i : Matches(f, ev[i]))
    IN  [k \in 1..Len(hits) |->
            [event |-> ev[hits[k]],
             proof |-> IF IsSome(mk) THEN MerkleProof(Unwrap(mk), hits[k] - 1)
                       ELSE <<>>,
             idx |-> hits[k] - 1]]

\* =============================================================== governance
\* governance.rs and admin.rs read the wall clock in whole seconds
\* (now_secs); the clock readings of this part are seconds.
SECS_PER_MONTH == 2592000
TIMELOCK_DELAY_SECS == 259200
MULTISIG_THRESHOLD == 3
MULTISIG_TOTAL == 5

\* The UTF-8 bytes of "g1" .. "g5", "dao", "admin", "mallory",
\* "set_fee_bps" and "set_max_trade_size".
Str_g1 == "6731"
Str_g2 == "6732"
Str_g3 == "6733"
Str_g4 == "6734"
Str_g5 == "6735"
Str_dao == "64616f"
Str_admin == "61646d696e"
Str_mallory == "6d616c6c6f7279"
Str_set_fee_bps == "7365745f6665655f627073"
Str_set_max_trade_size == "7365745f6d61785f74726164655f73697a65"

\* Result<T, String>: the error strings are told apart by `err`; `val` holds
\* the value of an Ok, or the numbers an error message prints.
Ok(v) == [ok |-> TRUE, err |-> "", val |-> <<v>>]
Err(e, nums) == [ok |-> FALSE, err |-> e, val |-> nums]

\* HashMap::insert
MapPut(m, k, v) == [x \in DOMAIN m \cup {k} |-> IF x = k THEN v ELSE m[x]]

\* u64::saturating_sub
saturating_sub(a, b) == IF a >= b THEN a - b ELSE 0

\* #[derive(PartialOrd, Ord)] on GovernancePhase: the declaration order.
PhaseRank(phase) ==
    CASE phase = "FullAdmin" -> 0
      [] phase = "PauseOnly" -> 1
      [] phase = "MultiSig" -> 2
      [] phase = "DaoOnly" -> 3

\* Variant: months are counted from 1, as in "months 1-3".
from_elapsed_OneBased(elapsed_secs) ==
    LET months == elapsed_secs \div SECS_PER_MONTH
    IN  IF months <= 3 THEN "FullAdmin"
        ELSE IF months <= 6 THEN "PauseOnly"
        ELSE IF months <= 12 THEN "MultiSig"
        ELSE "DaoOnly"

\* GovernancePhase::from_elapsed
from_elapsed(elapsed_secs) ==
    LET months == elapsed_secs \div SECS_PER_MONTH
    IN  IF months <= 2 THEN "FullAdmin"
        ELSE IF months <= 5 THEN "PauseOnly"
        ELSE IF months <= 11 THEN "MultiSig"
        ELSE "DaoOnly"

\* Feed every string of a list to the hasher, in order.
RECURSIVE UpdateAll(_, _)
UpdateAll(h, strs) ==
    IF Len(strs) = 0 THEN h
    ELSE UpdateAll(HashUpdate(h, Bytes(strs[1])), Tail(strs))

\* DecentralizationSchedule::compute_hash
Schedule_compute_hash(s) ==
    LET h1 == HashUpdate(Sha256New, Bytes(to_le_bytes(s.deployed_at, 8)))
        h2 == UpdateAll(h1, s.guardian_addresses)
        h3 == HashUpdate(h2, Bytes(s.dao_address))
        h4 == UpdateAll(h3, << "46756c6c41646d696e3a302d326d6f6e746873",
                               "50617573654f6e6c793a332d356d6f6e746873",
                               "4d756c74695369673a362d31316d6f6e746873",
                               "44616f4f6e6c793a31322b6d6f6e746873" >>)
    IN  Finalize(h4)

\* DecentralizationSchedule::new
Schedule_new(deployed_at, guardian_addresses, dao_address) ==
    LET s == [deployed_at |-> deployed_at, commitment_hash |-> ZeroHash,
              guardian_addresses |-> guardian_addresses,
              dao_address |-> dao_address]
    IN  [s EXCEPT !.commitment_hash = Schedule_compute_hash(s)]

\* The assertion of DecentralizationSchedule::new: it panics unless exactly
\* MULTISIG_TOTAL guardian addresses are given.
Schedule_new_precondition(guardian_addresses) ==
    Len(guardian_addresses) = MULTISIG_TOTAL

\* DecentralizationSchedule::verify_commitment
Schedule_verify_commitment(s) == s.commitment_hash = Schedule_compute_hash(s)

\* DecentralizationSchedule::current_phase at clock reading nowv
Schedule_current_phase(s, nowv) ==
    from_elapsed(saturating_sub(nowv, s.deployed_at))

\* let mut ph = Sha256::new(); ph.update(payload); ph.finalize()
PayloadHash(payload) == Finalize(HashUpdate(Sha256New, Bytes(payload)))

\* --------------------------------------------------------------- Timelock
\* Timelock::queue: the entries after the call and the id returned.
Timelock_queue(entries, description, payload, delay_secs, nowv) ==
    LET eta == nowv + delay_secs
        h1 == HashUpdate(Sha256New, Bytes(description))
        h2 == HashUpdate(h1, Bytes(payload))
        h3 == HashUpdate(h2, Bytes(to_le_bytes(nowv, 8)))
        operation_id == Finalize(h3)
        entry == [operation_id |-> operation_id, description |-> description,
                  payload_hash |-> PayloadHash(payload), queued_at |-> nowv,
                  eta |-> eta, executed |-> FALSE, cancelled |-> FALSE]
    IN  [entries |-> MapPut(entries, operation_id, entry), id |-> operation_id]

\* Variant: a payload different from the queued one is accepted.
Timelock_execute_NoPayloadCheck(entries, operation_id, payload, nowv) ==
    IF operation_id \notin DOMAIN entries
    THEN [entries |-> entries, result |-> Err("NotFound", <<>>)]
    ELSE LET entry == entries[operation_id]
         IN  IF entry.executed
             THEN [entries |-> entries, result |-> Err("AlreadyExecuted", <<>>)]
             ELSE IF entry.cancelled
             THEN [entries |-> entries, result |-> Err("Cancelled", <<>>)]
             ELSE IF nowv < entry.eta
             THEN [entries |-> entries,
                   result |-> Err("NotExpired", <<entry.eta - nowv>>)]
             ELSE [entries |-> [entries EXCEPT ![operation_id].executed = TRUE],
                   result |-> Ok(<<>>)]

\* Timelock::execute: the entries after the call and the result returned.
Timelock_execute(entries, operation_id, payload, nowv) ==
    IF operation_id \notin DOMAIN entries
    THEN [entries |-> entries, result |-> Err("NotFound", <<>>)]
    ELSE LET entry == entries[operation_id]
         IN  IF entry.executed
             THEN [entries |-> entries, result |-> Err("AlreadyExecuted", <<>>)]
             ELSE IF entry.cancelled
             THEN [entries |-> entries, result |-> Err("Cancelled", <<>>)]
             ELSE IF nowv < entry.eta
             THEN [entries |-> entries,
                   result |-> Err("NotExpired", <<entry.eta - nowv>>)]
             ELSE IF PayloadHash(payload) # entry.payload_hash
             THEN [entries |-> entries, result |-> Err("PayloadMismatch", <<>>)]
             ELSE [entries |-> [entries EXCEPT ![operation_id].executed = TRUE],
                   result |-> Ok(<<>>)]

\* Timelock::cancel
Timelock_cancel(entries, operation_id) ==
    IF operation_id \notin DOMAIN entries
    THEN [entries |-> entries, result |-> Err("NotFound", <<>>)]
    ELSE IF entries[operation_id].executed
    THEN [entries |-> entries, result |-> Err("AlreadyExecuted", <<>>)]
    ELSE [entries |-> [entries EXCEPT ![operation_id].cancelled = TRUE],
          result |-> Ok(<<>>)]

\* ---------------------------------------------------- MultiSigCoordinator
approval_count(p) == Cardinality(p.approvals)
is_approved(p) == Cardinality(p.approvals) >= MULTISIG_THRESHOLD

\* Variant: the proposer is not looked up in the signer set.
MultiSig_propose_AnyProposer(proposals, authorized_signers, proposer, description, payload, nowv) ==
    IF FALSE
    THEN [proposals |-> proposals, result |-> Err("NotAuthorizedSigner", <<>>)]
    ELSE LET h1 == HashUpdate(Sha256New, Bytes(proposer))
             h2 == HashUpdate(h1, Bytes(description))
             h3 == HashUpdate(h2, Bytes(payload))
             h4 == HashUpdate(h3, Bytes(to_le_bytes(nowv, 8)))
             proposal_id == Finalize(h4)
             p == [proposal_id |-> proposal_id, description |-> description,
                   payload_hash |-> PayloadHash(payload), proposer |-> proposer,
                   created_at |-> nowv, approvals |-> {proposer},
                   executed |-> FALSE, rejected |-> FALSE]
         IN  [proposals |-> MapPut(proposals, proposal_id, p),
              result |-> Ok(proposal_id)]

\* MultiSigCoordinator::propose
MultiSig_propose(proposals, authorized_signers, proposer, description, payload, nowv) ==
    IF proposer \notin authorized_signers
    THEN [proposals |-> proposals, result |-> Err("NotAuthorizedSigner", <<>>)]
    ELSE LET h1 == HashUpdate(Sha256New, Bytes(proposer))
             h2 == HashUpdate(h1, Bytes(description))
             h3 == HashUpdate(h2, Bytes(payload))
             h4 == HashUpdate(h3, Bytes(to_le_bytes(nowv, 8)))
             proposal_id == Finalize(h4)
             p == [proposal_id |-> proposal_id, description |-> description,
                   payload_hash |-> PayloadHash(payload), proposer |-> proposer,
                   created_at |-> nowv, approvals |-> {proposer},
                   executed |-> FALSE, rejected |-> FALSE]
         IN  [proposals |-> MapPut(proposals, proposal_id, p),
              result |-> Ok(proposal_id)]

\* Variant: the approvals are counted per call, not per signer.
MultiSig_approve_PerCall(proposals, authorized_signers, proposal_id, signer) ==
    IF signer \notin authorized_signers
    THEN [proposals |-> proposals, result |-> Err("NotAuthorizedSigner", <<>>)]
    ELSE IF proposal_id \notin DOMAIN proposals
    THEN [proposals |-> proposals, result |-> Err("NotFound", <<>>)]
    ELSE IF proposals[proposal_id].executed
    THEN [proposals |-> proposals, result |-> Err("AlreadyExecuted", <<>>)]
    ELSE IF proposals[proposal_id].rejected
    THEN [proposals |-> proposals, result |-> Err("Rejected", <<>>)]
    ELSE [proposals |-> [proposals EXCEPT
                            ![proposal_id].approvals = @ \cup {signer}],
          result |-> Ok(Cardinality(proposals[proposal_id].approvals) + 1)]

\* MultiSigCoordinator::approve
MultiSig_approve(proposals, authorized_signers, proposal_id, signer) ==
    IF signer \notin authorized_signers
    THEN [proposals |-> proposals, result |-> Err("NotAuthorizedSigner", <<>>)]
    ELSE IF proposal_id \notin DOMAIN proposals
    THEN [proposals |-> proposals, result |-> Err("NotFound", <<>>)]
    ELSE IF proposals[proposal_id].executed
    THEN [proposals |-> proposals, result |-> Err("AlreadyExecuted", <<>>)]
    ELSE IF proposals[proposal_id].rejected
    THEN [proposals |-> proposals, result |-> Err("Rejected", <<>>)]
    ELSE LET after == [proposals EXCEPT
                          ![proposal_id].approvals = @ \cup {signer}]
         IN  [proposals |-> after,
              result |-> Ok(Cardinality(after[proposal_id].approvals))]

\* Variant: the payload is compared before the approvals are counted.
MultiSig_execute_PayloadFirst(proposals, proposal_id, payload) ==
    IF proposal_id \notin DOMAIN proposals
    THEN [proposals |-> proposals, result |-> Err("NotFound", <<>>)]
    ELSE LET proposal == proposals[proposal_id]
         IN  IF proposal.executed
             THEN [proposals |-> proposals,
                   result |-> Err("AlreadyExecuted", <<>>)]
             ELSE IF proposal.rejected
             THEN [proposals |-> proposals, result |-> Err("Rejected", <<>>)]
             ELSE IF PayloadHash(payload) # proposal.payload_hash
             THEN [proposals |-> proposals,
                   result |-> Err("PayloadMismatch", <<>>)]
             ELSE IF ~is_approved(proposal)
             THEN [proposals |-> proposals,
                   result |-> Err("InsufficientApprovals",
                                  <<approval_count(proposal),
                                    MULTISIG_THRESHOLD>>)]
             ELSE [proposals |-> [proposals EXCEPT
                                     ![proposal_id].executed = TRUE],
                   result |-> Ok(<<>>)]

\* MultiSigCoordinator::execute
MultiSig_execute(proposals, proposal_id, payload) ==
    IF proposal_id \notin DOMAIN proposals
    THEN [proposals |-> proposals, result |-> Err("NotFound", <<>>)]
    ELSE LET proposal == proposals[proposal_id]
         IN  IF proposal.executed
             THEN [proposals |-> proposals,
                   result |-> Err("AlreadyExecuted", <<>>)]
             ELSE IF proposal.rejected
             THEN [proposals |-> proposals, result |-> Err("Rejected", <<>>)]
             ELSE IF ~is_approved(proposal)
             THEN [proposals |-> proposals,
                   result |-> Err("InsufficientApprovals",
                                  <<approval_count(proposal),
                                    MULTISIG_THRESHOLD>>)]
             ELSE IF PayloadHash(payload) # proposal.payload_hash
             THEN [proposals |-> proposals,
                   result |-> Err("PayloadMismatch", <<>>)]
             ELSE [proposals |-> [proposals EXCEPT
                                     ![proposal_id].executed = TRUE],
                   result |-> Ok(<<>>)]

\* ------------------------------------------------------------ SchnorrProof
\* The UTF-8 bytes of "pubkey" and "r".
Str_pubkey == "7075626b6579"
Str_r == "72"

\* The hash of three 32-byte arrays, or of two arrays and a byte string.
Hash3(a, b, c) ==
    Finalize(HashUpdate(HashUpdate(HashUpdate(Sha256New, a), b), c))

\* verify_schnorr_proof_test_compat
verify_schnorr_proof_test_compat(proof) ==
    LET e == Hash3(BlockBytes(proof.r_bytes), BlockBytes(proof.pubkey),
                   Bytes(proof.message))
        expected_s == Hash3(BlockBytes(proof.r_bytes),
                            BlockBytes(proof.pubkey), BlockBytes(e))
    IN  proof.s_bytes = expected_s

\* The public key make_schnorr_proof derives from a private key.
PubkeyOf(privkey) ==
    Finalize(HashUpdate(HashUpdate(Sha256New, BlockBytes(privkey)),
                        Bytes(Str_pubkey)))

\* make_schnorr_proof
make_schnorr_proof(privkey, message) ==
    LET pubkey == PubkeyOf(privkey)
        k == Finalize(HashUpdate(HashUpdate(Sha256New, BlockBytes(privkey)),
                                 Bytes(message)))
        r_bytes == Finalize(HashUpdate(HashUpdate(Sha256New, BlockBytes(k)),
                                       Bytes(Str_r)))
        e == Hash3(BlockBytes(r_bytes), BlockBytes(pubkey), Bytes(message))
        s_bytes == Hash3(BlockBytes(r_bytes), BlockBytes(pubkey),
                         BlockBytes(e))
    IN  [r_bytes |-> r_bytes, s_bytes |-> s_bytes, pubkey |-> pubkey,
         message |-> message]

\* ----------------------------------------------------------- GovernanceLog
\* serde_json::to_string(&event).as_bytes(): an injective rendering of the
\* event, fed to the hasher between two fixed-width fields.
JsonBytes(event) == << <<"json", event>> >>

\* GovernanceLogEntry::compute_hash
LogEntry_compute_hash(e) ==
    LET h1 == HashUpdate(Sha256New, Bytes(to_le_bytes(e.seq, 8)))
        h2 == HashUpdate(h1, Bytes(to_le_bytes(e.timestamp, 8)))
        h3 == HashUpdate(h2, JsonBytes(e.event))
        h4 == HashUpdate(h3, BlockBytes(e.prev_hash))
    IN  Finalize(h4)

GovernanceLog_new == [entries |-> <<>>, seq |-> 0]

\* Variant: every entry is linked to the all-zero hash.
GovernanceLog_append_Unlinked(log, event, nowv) ==
    LET entry == [seq |-> log.seq + 1, timestamp |-> nowv, event |-> event,
                  prev_hash |-> ZeroHash, entry_hash |-> ZeroHash]
    IN  [entries |-> Append(log.entries,
                            [entry EXCEPT !.entry_hash = LogEntry_compute_hash(entry)]),
         seq |-> log.seq + 1]

\* GovernanceLog::append
GovernanceLog_append(log, event, nowv) ==
    LET prev_hash == IF Len(log.entries) = 0 THEN ZeroHash
                     ELSE log.entries[Len(log.entries)].entry_hash
        entry == [seq |-> log.seq + 1, timestamp |-> nowv, event |-> event,
                  prev_hash |-> prev_hash, entry_hash |-> ZeroHash]
    IN  [entries |-> Append(log.entries,
                            [entry EXCEPT !.entry_hash = LogEntry_compute_hash(entry)]),
         seq |-> log.seq + 1]

\* GovernanceLog::verify_chain
GovernanceLog_verify_chain(log) ==
    \A i \in 1..Len(log.entries) :
        /\ log.entries[i].entry_hash = LogEntry_compute_hash(log.entries[i])
        /\ i > 1 => log.entries[i].prev_hash = log.entries[i - 1].entry_hash

\* ------------------------------------------------------ GovernanceContract
\* GovernanceContract::deploy at clock reading nowv
deploy(guardian_addresses, dao_address, nowv) ==
    LET sched == Schedule_new(nowv, guardian_addresses, dao_address)
        log1 == GovernanceLog_append(
                    GovernanceLog_new,
                    [type |-> "ScheduleVerified",
                     commitment_hash |-> HexEncode(sched.commitment_hash)],
                    nowv)
        log2 == GovernanceLog_append(
                    log1,
                    [type |-> "PhaseTransition", from |-> "FullAdmin",
                     to |-> "FullAdmin"],
                    nowv)
    IN  [schedule |-> sched,
         timelock |-> [entries |-> <<>>],
         multisig |-> [proposals |-> <<>>,
                       authorized_signers |->
                           {guardian_addresses[i] :
                                i \in 1..Len(guardian_addresses)}],
         log |-> log2,
         last_reported_phase |-> "FullAdmin"]

\* GovernanceContract::current_phase
current_phase(G, nowv) == Schedule_current_phase(G.schedule, nowv)

\* Variant: a transition is logged at every call.
tick_Always(G, nowv) ==
    LET current == current_phase(G, nowv)
    IN  [G EXCEPT !.log = GovernanceLog_append(
                              G.log,
                              [type |-> "PhaseTransition",
                               from |-> G.last_reported_phase,
                               to |-> current],
                              nowv),
                  !.last_reported_phase = current]

\* Variant: the phase reported is not remembered.
tick_Forgetful(G, nowv) ==
    LET current == current_phase(G, nowv)
    IN  IF current # G.last_reported_phase
        THEN [G EXCEPT !.log = GovernanceLog_append(
                                   G.log,
                                   [type |-> "PhaseTransition",
                                    from |-> G.last_reported_phase,
                                    to |-> current],
                                   nowv)]
        ELSE G

\* GovernanceContract::tick
tick(G, nowv) ==
    LET current == current_phase(G, nowv)
    IN  IF current # G.last_reported_phase
        THEN [G EXCEPT !.log = GovernanceLog_append(
                                   G.log,
                                   [type |-> "PhaseTransition",
                                    from |-> G.last_reported_phase,
                                    to |-> current],
                                   nowv),
                       !.last_reported_phase = current]
        ELSE G

\* GovernanceContract::assert_can_modify_state
assert_can_modify_state(G, actor, nowv) ==
    LET phase == current_phase(G, nowv)
    IN  IF phase = "FullAdmin" THEN Ok(<<>>)
        ELSE Err("PhaseNotAllowed", <<phase>>)

\* Variant: pausing is allowed in the first phase only.
assert_can_pause_FullAdminOnly(G, nowv) ==
    LET phase == current_phase(G, nowv)
    IN  IF phase = "FullAdmin" THEN Ok(<<>>)
        ELSE Err("PhaseNotAllowed", <<phase>>)

\* GovernanceContract::assert_can_pause
assert_can_pause(G, nowv) ==
    LET phase == current_phase(G, nowv)
    IN  IF phase \in {"FullAdmin", "PauseOnly"} THEN Ok(<<>>)
        ELSE Err("PhaseNotAllowed", <<phase>>)

\* Variant: the operation is queued with no delay.
queue_operation_NoDelay(G, description, payload, nowv) ==
    LET q == Timelock_queue(G.timelock.entries, description, payload, 0, nowv)
    IN  [gov |-> [G EXCEPT !.timelock.entries = q.entries,
                           !.log = GovernanceLog_append(
                                       G.log,
                                       [type |-> "TimelockQueued",
                                        operation_id |-> HexEncode(q.id),
                                        eta |-> nowv + TIMELOCK_DELAY_SECS],
                                       nowv)],
         id |-> q.id]

\* GovernanceContract::queue_operation
queue_operation(G, description, payload, nowv) ==
    LET q == Timelock_queue(G.timelock.entries, description, payload,
                            TIMELOCK_DELAY_SECS, nowv)
    IN  [gov |-> [G EXCEPT !.timelock.entries = q.entries,
                           !.log = GovernanceLog_append(
                                       G.log,
                                       [type |-> "TimelockQueued",
                                        operation_id |-> HexEncode(q.id),
                                        eta |-> nowv + TIMELOCK_DELAY_SECS],
                                       nowv)],
         id |-> q.id]

\* GovernanceContract::execute_operation
execute_operation(G, op_id, payload, nowv) ==
    LET x == Timelock_execute(G.timelock.entries, op_id, payload, nowv)
    IN  IF ~x.result.ok THEN [gov |-> G, result |-> x.result]
        ELSE [gov |-> [G EXCEPT !.timelock.entries = x.entries,
                                !.log = GovernanceLog_append(
                                            G.log,
                                            [type |-> "TimelockExecuted",
                                             operation_id |-> HexEncode(op_id)],
                                            nowv)],
              result |-> Ok(<<>>)]

\* GovernanceContract::cancel_operation
cancel_operation(G, op_id, nowv) ==
    LET x == Timelock_cancel(G.timelock.entries, op_id)
    IN  IF ~x.result.ok THEN [gov |-> G, result |-> x.result]
        ELSE [gov |-> [G EXCEPT !.timelock.entries = x.entries,
                                !.log = GovernanceLog_append(
                                            G.log,
                                            [type |-> "TimelockCancelled",
                                             operation_id |-> HexEncode(op_id)],
                                            nowv)],
              result |-> Ok(<<>>)]

\* GovernanceContract::propose_multisig
propose_multisig(G, proposer, description, payload, nowv) ==
    LET x == MultiSig_propose(G.multisig.proposals,
                              G.multisig.authorized_signers, proposer,
                              description, payload, nowv)
    IN  IF ~x.result.ok THEN [gov |-> G, result |-> x.result]
        ELSE [gov |-> [G EXCEPT !.multisig.proposals = x.proposals,
                                !.log = GovernanceLog_append(
                                            G.log,
                                            [type |-> "ProposalCreated",
                                             proposal_id |->
                                                 HexEncode(x.result.val[1]),
                                             proposer |-> proposer],
                                            nowv)],
              result |-> x.result]

\* Variant: an approval that leaves the approval set as it was is not logged.
approve_multisig_Quiet(G, proposal_id, signer, nowv) ==
    LET x == MultiSig_approve(G.multisig.proposals,
                              G.multisig.authorized_signers, proposal_id,
                              signer)
    IN  IF ~x.result.ok THEN [gov |-> G, result |-> x.result]
        ELSE IF x.proposals = G.multisig.proposals
        THEN [gov |-> G, result |-> x.result]
        ELSE [gov |-> [G EXCEPT !.multisig.proposals = x.proposals,
                                !.log = GovernanceLog_append(
                                            G.log,
                                            [type |-> "ProposalApproved",
                                             proposal_id |-> HexEncode(proposal_id),
                                             approver |-> signer,
                                             count |-> x.result.val[1]],
                                            nowv)],
              result |-> x.result]

\* GovernanceContract::approve_multisig
approve_multisig(G, proposal_id, signer, nowv) ==
    LET x == MultiSig_approve(G.multisig.proposals,
                              G.multisig.authorized_signers, proposal_id,
                              signer)
    IN  IF ~x.result.ok THEN [gov |-> G, result |-> x.result]
        ELSE [gov |-> [G EXCEPT !.multisig.proposals = x.proposals,
                                !.log = GovernanceLog_append(
                                            G.log,
                                            [type |-> "ProposalApproved",
                                             proposal_id |-> HexEncode(proposal_id),
                                             approver |-> signer,
                                             count |-> x.result.val[1]],
                                            nowv)],
              result |-> x.result]

\* GovernanceContract::execute_multisig
execute_multisig(G, proposal_id, payload, nowv) ==
    LET x == MultiSig_execute(G.multisig.proposals, proposal_id, payload)
    IN  IF ~x.result.ok THEN [gov |-> G, result |-> x.result]
        ELSE [gov |-> [G EXCEPT !.multisig.proposals = x.proposals,
                                !.log = GovernanceLog_append(
                                            G.log,
                                            [type |-> "ProposalExecuted",
                                             proposal_id |-> HexEncode(proposal_id)],
                                            nowv)],
              result |-> Ok(<<>>)]

\* Variant: the guardian is not looked up in the authorized signer set.
guardian_override_AnyKey(G, proof, reason, nowv) ==
    IF ~verify_schnorr_proof_test_compat(proof)
    THEN [gov |-> G, result |-> Err("InvalidProof", <<>>)]
    ELSE [gov |-> [G EXCEPT !.log = GovernanceLog_append(
                                         G.log,
                                         [type |-> "GuardianOverride",
                                          guardian |-> HexEncode(proof.pubkey),
                                          reason |-> reason],
                                         nowv)],
          result |-> Ok(<<>>)]

\* GovernanceContract::guardian_override
guardian_override(G, proof, reason, nowv) ==
    IF HexEncode(proof.pubkey) \notin G.multisig.authorized_signers
    THEN [gov |-> G, result |-> Err("NotAuthorizedGuardian", <<>>)]
    ELSE IF ~verify_schnorr_proof_test_compat(proof)
    THEN [gov |-> G, result |-> Err("InvalidProof", <<>>)]
    ELSE [gov |-> [G EXCEPT !.log = GovernanceLog_append(
                                         G.log,
                                         [type |-> "GuardianOverride",
                                          guardian |-> HexEncode(proof.pubkey),
                                          reason |-> reason],
                                         nowv)],
          result |-> Ok(<<>>)]

\* --------------------------------------------------------- AdminController
\* An admin controller value C is [state |-> ContractState,
\* governance |-> GovernanceContract]; each operation gives the controller
\* after the call and the result returned.
AdminController_new(governance, initial_admin) ==
    [state |-> [trading_paused |-> FALSE, fee_bps |-> 30,
                max_trade_size |-> 1000000, admin |-> initial_admin],
     governance |-> governance]

\* Variant: every caller passes.
assert_admin_Anyone(C, caller) == Ok(<<>>)

\* AdminController::assert_admin
assert_admin(C, caller) ==
    IF caller # C.state.admin THEN Err("NotAdmin", <<>>) ELSE Ok(<<>>)

\* AdminController::pause_trading
pause_trading(C, caller, nowv) ==
    IF ~assert_admin(C, caller).ok
    THEN [ctl |-> C, result |-> assert_admin(C, caller)]
    ELSE IF ~assert_can_pause(C.governance, nowv).ok
    THEN [ctl |-> C, result |-> assert_can_pause(C.governance, nowv)]
    ELSE [ctl |-> [C EXCEPT !.state.trading_paused = TRUE],
          result |-> Ok(<<>>)]

\* AdminController::resume_trading
resume_trading(C, caller, nowv) ==
    IF ~assert_admin(C, caller).ok
    THEN [ctl |-> C, result |-> assert_admin(C, caller)]
    ELSE IF ~assert_can_pause(C.governance, nowv).ok
    THEN [ctl |-> C, result |-> assert_can_pause(C.governance, nowv)]
    ELSE [ctl |-> [C EXCEPT !.state.trading_paused = FALSE],
          result |-> Ok(<<>>)]

\* AdminController::set_fee_bps_direct
set_fee_bps_direct(C, caller, fee_bps, nowv) ==
    IF ~assert_admin(C, caller).ok
    THEN [ctl |-> C, result |-> assert_admin(C, caller)]
    ELSE IF ~assert_can_modify_state(C.governance, caller, nowv).ok
    THEN [ctl |-> C,
          result |-> assert_can_modify_state(C.governance, caller, nowv)]
    ELSE [ctl |-> [C EXCEPT !.state.fee_bps = fee_bps], result |-> Ok(<<>>)]

\* AdminController::queue_set_fee_bps
queue_set_fee_bps(C, caller, fee_bps, nowv) ==
    IF ~assert_admin(C, caller).ok
    THEN [ctl |-> C, result |-> assert_admin(C, caller)]
    ELSE IF current_phase(C.governance, nowv) = "DaoOnly"
    THEN [ctl |-> C, result |-> Err("PhaseNotAllowed", <<"DaoOnly">>)]
    ELSE LET q == queue_operation(C.governance, Str_set_fee_bps,
                                  to_le_bytes(fee_bps, 2), nowv)
         IN  [ctl |-> [C EXCEPT !.governance = q.gov], result |-> Ok(q.id)]

\* AdminController::execute_set_fee_bps
execute_set_fee_bps(C, op_id, fee_bps, nowv) ==
    LET x == execute_operation(C.governance, op_id, to_le_bytes(fee_bps, 2),
                               nowv)
    IN  IF ~x.result.ok THEN [ctl |-> C, result |-> x.result]
        ELSE [ctl |-> [C EXCEPT !.governance = x.gov,
                                !.state.fee_bps = fee_bps],
              result |-> Ok(<<>>)]

\* AdminController::propose_max_trade_size
propose_max_trade_size(C, proposer, new_size, nowv) ==
    IF current_phase(C.governance, nowv) \notin {"MultiSig", "DaoOnly"}
    THEN [ctl |-> C,
          result |-> Err("PhaseNotAllowed",
                         <<current_phase(C.governance, nowv)>>)]
    ELSE LET x == propose_multisig(C.governance, proposer,
                                   Str_set_max_trade_size,
                                   to_le_bytes(new_size, 8), nowv)
         IN  [ctl |-> [C EXCEPT !.governance = x.gov], result |-> x.result]

\* AdminController::approve_max_trade_size
approve_max_trade_size(C, proposal_id, signer, nowv) ==
    LET x == approve_multisig(C.governance, proposal_id, signer, nowv)
    IN  [ctl |-> [C EXCEPT !.governance = x.gov], result |-> x.result]

\* AdminController::execute_max_trade_size
execute_max_trade_size(C, proposal_id, new_size, nowv) ==
    LET x == execute_multisig(C.governance, proposal_id,
                              to_le_bytes(new_size, 8), nowv)
    IN  IF ~x.result.ok THEN [ctl |-> C, result |-> x.result]
        ELSE [ctl |-> [C EXCEPT !.governance = x.gov,
                                !.state.max_trade_size = new_size],
              result |-> Ok(<<>>)]

\* AdminController::guardian_override
admin_guardian_override(C, proof, reason, nowv) ==
    LET x == guardian_override(C.governance, proof, reason, nowv)
    IN  [ctl |-> [C EXCEPT !.governance = x.gov], result |-> x.result]

\* ------------------------------------------------------------- state
VARIABLES
    events,           \* AuditLog.events: committed events, oldest first
    index,            \* AuditLog.index: event id -> 0-based position
    counter,          \* AuditLog.counter
    merkle,           \* AuditLog.merkle: None or Some(tree)
    pending_batch,    \* AuditLog.pending_batch
    anomaly_detector, \* AuditLog.anomaly_detector
    anomaly_alerts,   \* AuditLog.anomaly_alerts
    retention,        \* AuditLog.retention: hot_retention_ns, archive_hook set?
    now,              \* the clock reading now_ns() returns
    archived,         \* the calls the archive sink has received (event ids)
    last,             \* the last call made on the log and what it returned
    calls,            \* number of record calls made so far
    orig,             \* event_hash -> the event as committed, for altered events
    tampers,          \* number of in-place alterations made so far
    state,            \* AdminController.state: the ContractState
    governance,       \* AdminController.governance: the GovernanceContract
    clock_secs,       \* the clock reading now_secs() returns
    gov_last,         \* the last call on the controller and what it returned
    cancelled_ops,    \* the operation ids a cancel has succeeded for
    queued_moment,    \* operation id -> clock reading of the call that queued it
    sealed            \* proposal id -> the proposal as its execute left it

auditVars == <<events, index, counter, merkle, pending_batch, anomaly_detector,
               anomaly_alerts, retention, now, archived, last, calls, orig,
               tampers>>
govVars == <<state, governance, clock_secs, gov_last, cancelled_ops,
             queued_moment, sealed>>
vars == <<events, index, counter, merkle, pending_batch, anomaly_detector,
          anomaly_alerts, retention, now, archived, last, calls, orig, tampers,
          state, governance, clock_secs, gov_last, cancelled_ops,
          queued_moment, sealed>>

\* The UTF-8 bytes of "a", "ab", "c", "bc", "t", "x", "OK" and "ER".
Str_a == "61"
Str_ab == "6162"
Str_c == "63"
Str_bc == "6263"
Str_t == "74"
Str_x == "78"
Str_OK == "4f4b"
Str_ER == "4552"

\* The arguments record is called with.
RecordInputs ==
    { [actor |-> Str_ab, action |-> Str_c, target |-> Str_t, result |-> Str_OK,
       gas_used |-> 21000, state_hash |-> Raw(1), category |-> "Trading",
       severity |-> "Info"],
      [actor |-> Str_a, action |-> Str_bc, target |-> Str_t, result |-> Str_OK,
       gas_used |-> 0, state_hash |-> Raw(2), category |-> "Administrative",
       severity |-> "Warning"] }

\* The retention policies a caller installs (hot_retention_ns and whether an
\* archive sink is configured); the first is RetentionPolicy::default().
PolicyChoices ==
    { [hot_retention_ns |-> DEFAULT_HOT_RETENTION_NS, archive_hook |-> FALSE],
      [hot_retention_ns |-> 0, archive_hook |-> TRUE],
      [hot_retention_ns |-> 1, archive_hook |-> FALSE] }

\* The values an in-place alteration may write into a field.
TamperValues(f) ==
    CASE f = "id" -> {1, 9}
      [] f = "timestamp" -> {0, 7}
      [] f = "actor" -> {Str_a, Str_ab}
      [] f = "action" -> {Str_c, Str_bc}
      [] f = "target" -> {Str_t, Str_x}
      [] f = "result" -> {Str_OK, Str_ER}
      [] f = "gas_used" -> {0, 21000}
      [] f = "state_hash" -> {Raw(1), Raw(2)}
      [] f = "prev_hash" -> {ZeroHash, Raw(5)}
      [] f = "category" -> {"Trading", "Security"}
      [] f = "severity" -> {"Info", "Critical"}

TamperFields == PreimageFields \cup {"category", "severity"}

\* ------------------------------------------------- governance: the calls
\* The five guardians of the deployment and its DAO address.
Guardians == <<Str_g1, Str_g2, Str_g3, Str_g4, Str_g5>>

\* The controller as the operations of admin.rs see it.
ControllerValue == [state |-> state, governance |-> governance]

\* GovernanceContract::deploy(guardians, "dao") followed by
\* AdminController::new(governance, "admin"), at clock reading 0.
GovInit ==
    /\ clock_secs = 0
    /\ governance = deploy(Guardians, Str_dao, 0)
    /\ state = AdminController_new(deploy(Guardians, Str_dao, 0), Str_admin).state
    /\ gov_last = [op |-> "deploy", result |-> Ok(<<>>)]
    /\ cancelled_ops = {}
    /\ queued_moment = <<>>
    /\ sealed = <<>>

\* The (description, payload) pairs queue_operation and propose_multisig are
\* called with, the payloads execute is called with, the callers and signers,
\* and the fee and size values of the admin operations.
OperationInputs ==
    { [description |-> Str_a, payload |-> Str_bc],
      [description |-> Str_ab, payload |-> Str_c] }
Payloads == {Str_bc, Str_c}
Callers == {Str_admin, Str_mallory}
Signers == {Str_g1, Str_g2, Str_g3, Str_mallory}
Proposers == {Str_g1, Str_mallory}
FeeValues == {30, 25}
SizeValues == {1000000, 2000000}

\* The ids a caller passes: every id handed out so far and one unknown id.
OperationIds == DOMAIN governance.timelock.entries \cup {ZeroHash}
ProposalIds == DOMAIN governance.multisig.proposals \cup {ZeroHash}

\* The number of entries the calls have appended to the governance log
\* (deploy appends two).
LoggedCalls == governance.log.seq - 2


\* A log value: the fields of AuditLog that record and flush_batch read and
\* write, and the calls received so far by the archive sink.
LogValue ==
    [events |-> events, index |-> index, counter |-> counter,
     merkle |-> merkle, pending_batch |-> pending_batch, archived |-> archived]

\* AuditLog::new()
AuditInit ==
    /\ events = <<>>
    /\ index = <<>>
    /\ counter = 0
    /\ merkle = None
    /\ pending_batch = <<>>
    /\ anomaly_detector = [trade_window |-> <<>>, admin_window |-> <<>>,
                           alert_counter |-> 0]
    /\ anomaly_alerts = <<>>
    /\ retention = [hot_retention_ns |-> DEFAULT_HOT_RETENTION_NS,
                    archive_hook |-> FALSE]
    /\ now = 0
    /\ archived = <<>>
    /\ last = [op |-> "new", val |-> 0]
    /\ calls = 0
    /\ orig = <<>>
    /\ tampers = 0

\* A fresh audit log and a freshly deployed controller.
Init == AuditInit /\ GovInit

\* The private keys of the five guardians and of an outsider, and the
\* guardian addresses they give: hex::encode of each public key.
GuardianKeys == <<Raw(1), Raw(2), Raw(3), Raw(4), Raw(5)>>
OutsiderKey == Raw(9)
KeyedGuardians == [i \in 1..5 |-> HexEncode(PubkeyOf(GuardianKeys[i]))]

\* The same deployment with guardians addressed by their public keys.
InitKeyed ==
    /\ AuditInit
    /\ clock_secs = 0
    /\ governance = deploy(KeyedGuardians, Str_dao, 0)
    /\ state = AdminController_new(deploy(KeyedGuardians, Str_dao, 0),
                                   Str_admin).state
    /\ gov_last = [op |-> "deploy", result |-> Ok(<<>>)]
    /\ cancelled_ops = {}
    /\ queued_moment = <<>>
    /\ sealed = <<>>

\* The event at position i of committed storage as it was committed: an
\* event_hash is never altered and names one event.
Original(e) == IF e.event_hash \in DOMAIN orig THEN orig[e.event_hash] ELSE e
Originals == [i \in 1..Len(events) |-> Original(events[i])]

\* Forget the copies of events that have left committed storage.
OrigFollow(og, ev) ==
    [h \in DOMAIN og \cap {ev[i].event_hash : i \in 1..Len(ev)} |-> og[h]]

SetLog(L) ==
    /\ events' = L.events
    /\ index' = L.index
    /\ counter' = L.counter
    /\ merkle' = L.merkle
    /\ pending_batch' = L.pending_batch
    /\ archived' = L.archived

\* log.record(actor, action, target, result, gas_used, state_hash, category,
\* severity) at clock reading `now`; at most `limit` calls are explored.
Record(inp, limit) ==
    /\ counter < limit
    /\ LET e == NewEvent(NextCounter(counter), now, inp, LinkTarget(events))
           seen == inspect(anomaly_detector, e, now)
           L == record(LogValue, e, now, retention)
       IN  /\ SetLog(L)
           /\ anomaly_detector' = seen.detector
           /\ anomaly_alerts' = IF IsSome(seen.alert)
                                THEN Append(anomaly_alerts, Unwrap(seen.alert))
                                ELSE anomaly_alerts
           /\ last' = [op |-> "record", val |-> L.counter]
           /\ orig' = OrigFollow(orig, L.events)
    /\ calls' = calls + 1
    /\ UNCHANGED <<retention, now, tampers, govVars>>

\* log.flush_batch() at clock reading `now`; `last.val` is the number of
\* pending events the call found.
Flush ==
    /\ SetLog(flush_batch(LogValue, now, retention))
    /\ last' = [op |-> "flush", val |-> Len(pending_batch)]
    /\ orig' = OrigFollow(orig, events')
    /\ UNCHANGED <<anomaly_detector, anomaly_alerts, retention, now, calls,
                   tampers, govVars>>

\* The wall clock moves on between two calls.
Tick ==
    /\ now < MaxClock
    /\ now' = now + 1
    /\ UNCHANGED <<events, index, counter, merkle, pending_batch,
                   anomaly_detector, anomaly_alerts, retention, archived, last,
                   calls, orig, tampers, govVars>>

\* log.retention.hot_retention_ns = ...; log.retention.archive_hook = ...
SetRetention(policy) ==
    /\ retention # policy
    /\ retention' = policy
    /\ last' = [op |-> "configure", val |-> 0]
    /\ UNCHANGED <<events, index, counter, merkle, pending_batch,
                   anomaly_detector, anomaly_alerts, now, archived, calls, orig,
                   tampers, govVars>>

\* log.events[i].f = v: a committed event is altered in place and its
\* event_hash is left as it was.
Tamper(i, f, v) ==
    /\ tampers < MaxTamper
    /\ i \in 1..Len(events)
    /\ events[i][f] # v
    /\ events' = [events EXCEPT ![i][f] = v]
    /\ orig' = [h \in DOMAIN orig \cup {events[i].event_hash} |->
                   IF h \in DOMAIN orig THEN orig[h] ELSE events[i]]
    /\ tampers' = tampers + 1
    /\ last' = [op |-> "tamper", val |-> i]
    /\ UNCHANGED <<index, counter, merkle, pending_batch, anomaly_detector,
                   anomaly_alerts, retention, now, archived, calls, govVars>>

Next ==
    \/ \E inp \in RecordInputs : Record(inp, MaxRecords)
    \/ Flush
    \/ Tick
    \/ \E policy \in PolicyChoices : SetRetention(policy)

Spec == Init /\ [][Next]_vars

NextTamper ==
    \/ \E inp \in RecordInputs : Record(inp, MaxTamperRecords)
    \/ Flush
    \/ Tick
    \/ \E policy \in PolicyChoices : SetRetention(policy)
    \/ \E i \in 1..MaxTamperRecords, f \in TamperFields :
          \E v \in TamperValues(f) : Tamper(i, f, v)

SpecTamper == Init /\ [][NextTamper]_vars

\* A log that only records and flushes, for the Merkle proofs of larger
\* trees.
NextProofs ==
    \/ \E inp \in RecordInputs : Record(inp, MaxLeaves)
    \/ Flush

SpecProofs == Init /\ [][NextProofs]_vars

\* A call on the controller: the controller and the ghosts after it.
SetController(op, r) ==
    /\ state' = r.ctl.state
    /\ governance' = r.ctl.governance
    /\ gov_last' = [op |-> op, result |-> r.result]
    /\ UNCHANGED <<clock_secs, auditVars>>

\* A call on controller.governance: the contract and the ghosts after it.
SetGovernance(op, G, result) ==
    /\ governance' = G
    /\ gov_last' = [op |-> op, result |-> result]
    /\ UNCHANGED <<state, clock_secs, auditVars>>

\* controller.governance.queue_operation(description, payload)
QueueOperation(inp, limit) ==
    /\ LoggedCalls < limit
    /\ LET q == queue_operation(governance, inp.description, inp.payload,
                                clock_secs)
       IN  /\ SetGovernance("queue_operation", q.gov, Ok(q.id))
           /\ queued_moment' = MapPut(queued_moment, q.id, clock_secs)
    /\ UNCHANGED <<cancelled_ops, sealed>>

\* controller.governance.execute_operation(op_id, payload)
ExecuteOperation(op_id, payload, limit) ==
    /\ LoggedCalls < limit
    /\ LET x == execute_operation(governance, op_id, payload, clock_secs)
       IN  SetGovernance("execute_operation", x.gov, x.result)
    /\ UNCHANGED <<cancelled_ops, queued_moment, sealed>>

\* controller.governance.cancel_operation(op_id)
CancelOperation(op_id, limit) ==
    /\ LoggedCalls < limit
    /\ LET x == cancel_operation(governance, op_id, clock_secs)
       IN  /\ SetGovernance("cancel_operation", x.gov, x.result)
           /\ cancelled_ops' = IF x.result.ok THEN cancelled_ops \cup {op_id}
                               ELSE cancelled_ops
    /\ UNCHANGED <<queued_moment, sealed>>

\* controller.governance.propose_multisig(proposer, description, payload)
ProposeMultisig(proposer, inp, limit) ==
    /\ LoggedCalls < limit
    /\ LET x == propose_multisig(governance, proposer, inp.description,
                                 inp.payload, clock_secs)
       IN  SetGovernance("propose_multisig", x.gov, x.result)
    /\ UNCHANGED <<cancelled_ops, queued_moment, sealed>>

\* controller.governance.approve_multisig(proposal_id, signer)
ApproveMultisig(proposal_id, signer, limit) ==
    /\ LoggedCalls < limit
    /\ LET x == approve_multisig(governance, proposal_id, signer, clock_secs)
       IN  SetGovernance("approve_multisig", x.gov, x.result)
    /\ UNCHANGED <<cancelled_ops, queued_moment, sealed>>

\* controller.governance.execute_multisig(proposal_id, payload)
ExecuteMultisig(proposal_id, payload, limit) ==
    /\ LoggedCalls < limit
    /\ LET x == execute_multisig(governance, proposal_id, payload, clock_secs)
       IN  /\ SetGovernance("execute_multisig", x.gov, x.result)
           /\ sealed' = IF x.result.ok
                        THEN MapPut(sealed, proposal_id,
                                    x.gov.multisig.proposals[proposal_id])
                        ELSE sealed
    /\ UNCHANGED <<cancelled_ops, queued_moment>>

\* controller.pause_trading(caller)
PauseTrading(caller) ==
    /\ SetController("pause_trading",
                     pause_trading(ControllerValue, caller, clock_secs))
    /\ UNCHANGED <<cancelled_ops, queued_moment, sealed>>

\* controller.resume_trading(caller)
ResumeTrading(caller) ==
    /\ SetController("resume_trading",
                     resume_trading(ControllerValue, caller, clock_secs))
    /\ UNCHANGED <<cancelled_ops, queued_moment, sealed>>

\* controller.set_fee_bps_direct(caller, fee_bps)
SetFeeBpsDirect(caller, fee_bps) ==
    /\ SetController("set_fee_bps_direct",
                     set_fee_bps_direct(ControllerValue, caller, fee_bps,
                                        clock_secs))
    /\ UNCHANGED <<cancelled_ops, queued_moment, sealed>>

\* controller.queue_set_fee_bps(caller, fee_bps)
QueueSetFeeBps(caller, fee_bps, limit) ==
    /\ LoggedCalls < limit
    /\ LET r == queue_set_fee_bps(ControllerValue, caller, fee_bps, clock_secs)
       IN  /\ SetController("queue_set_fee_bps", r)
           /\ queued_moment' = IF r.result.ok
                               THEN MapPut(queued_moment, r.result.val[1],
                                           clock_secs)
                               ELSE queued_moment
    /\ UNCHANGED <<cancelled_ops, sealed>>

\* controller.execute_set_fee_bps(op_id, fee_bps)
ExecuteSetFeeBps(op_id, fee_bps, limit) ==
    /\ LoggedCalls < limit
    /\ SetController("execute_set_fee_bps",
                     execute_set_fee_bps(ControllerValue, op_id, fee_bps,
                                         clock_secs))
    /\ UNCHANGED <<cancelled_ops, queued_moment, sealed>>

\* controller.propose_max_trade_size(proposer, new_size)
ProposeMaxTradeSize(proposer, new_size, limit) ==
    /\ LoggedCalls < limit
    /\ SetController("propose_max_trade_size",
                     propose_max_trade_size(ControllerValue, proposer,
                                            new_size, clock_secs))
    /\ UNCHANGED <<cancelled_ops, queued_moment, sealed>>

\* controller.approve_max_trade_size(proposal_id, signer)
ApproveMaxTradeSize(proposal_id, signer, limit) ==
    /\ LoggedCalls < limit
    /\ SetController("approve_max_trade_size",
                     approve_max_trade_size(ControllerValue, proposal_id,
                                            signer, clock_secs))
    /\ UNCHANGED <<cancelled_ops, queued_moment, sealed>>

\* controller.execute_max_trade_size(proposal_id, new_size)
ExecuteMaxTradeSize(proposal_id, new_size, limit) ==
    /\ LoggedCalls < limit
    /\ LET r == execute_max_trade_size(ControllerValue, proposal_id, new_size,
                                       clock_secs)
       IN  /\ SetController("execute_max_trade_size", r)
           /\ sealed' = IF r.result.ok
                        THEN MapPut(sealed, proposal_id,
                                    r.ctl.governance.multisig.proposals[
                                        proposal_id])
                        ELSE sealed
    /\ UNCHANGED <<cancelled_ops, queued_moment>>

\* The wall clock moves on to the reading t between two calls.
Advance(t) ==
    /\ t > clock_secs
    /\ clock_secs' = t
    /\ UNCHANGED <<state, governance, gov_last, cancelled_ops, queued_moment,
                   sealed, auditVars>>

\* The clock readings at which the timelock is called: the moment of
\* deployment, one second later, and the etas of operations queued then.
TimelockClock == {1, TIMELOCK_DELAY_SECS, TIMELOCK_DELAY_SECS + 1}

NextTimelock ==
    \/ \E inp \in OperationInputs : QueueOperation(inp, MaxTimelockCalls)
    \/ \E op_id \in OperationIds, payload \in Payloads :
          ExecuteOperation(op_id, payload, MaxTimelockCalls)
    \/ \E op_id \in OperationIds : CancelOperation(op_id, MaxTimelockCalls)
    \/ \E t \in TimelockClock : Advance(t)

SpecTimelock == Init /\ [][NextTimelock]_vars

\* The timelock reached both ways, through the contract and through the
\* controller's fee change.
NextDelay ==
    \/ \E inp \in OperationInputs : QueueOperation(inp, MaxDelayCalls)
    \/ \E op_id \in OperationIds, payload \in Payloads :
          ExecuteOperation(op_id, payload, MaxDelayCalls)
    \/ \E op_id \in OperationIds : CancelOperation(op_id, MaxDelayCalls)
    \/ \E caller \in Callers, fee \in FeeValues :
          QueueSetFeeBps(caller, fee, MaxDelayCalls)
    \/ \E op_id \in OperationIds, fee \in FeeValues :
          ExecuteSetFeeBps(op_id, fee, MaxDelayCalls)
    \/ \E t \in TimelockClock : Advance(t)

SpecDelay == Init /\ [][NextDelay]_vars

NextMultiSig ==
    \/ \E proposer \in Proposers, inp \in OperationInputs :
          ProposeMultisig(proposer, inp, MaxMultiSigCalls)
    \/ \E pid \in ProposalIds, signer \in Signers :
          ApproveMultisig(pid, signer, MaxMultiSigCalls)
    \/ \E pid \in ProposalIds, payload \in Payloads :
          ExecuteMultisig(pid, payload, MaxMultiSigCalls)

SpecMultiSig == Init /\ [][NextMultiSig]_vars

\* The clock readings at which the admin operations are called: the last
\* second of FullAdmin and the first seconds of the three later phases.
PhaseClock ==
    {3 * SECS_PER_MONTH - 1, 3 * SECS_PER_MONTH, 6 * SECS_PER_MONTH,
     12 * SECS_PER_MONTH}

NextAdmin ==
    \/ \E caller \in Callers : PauseTrading(caller)
    \/ \E caller \in Callers : ResumeTrading(caller)
    \/ \E caller \in Callers, fee \in FeeValues : SetFeeBpsDirect(caller, fee)
    \/ \E caller \in Callers, fee \in FeeValues :
          QueueSetFeeBps(caller, fee, MaxAdminCalls)
    \/ \E op_id \in OperationIds, fee \in FeeValues :
          ExecuteSetFeeBps(op_id, fee, MaxAdminCalls)
    \/ \E proposer \in Proposers, size \in SizeValues :
          ProposeMaxTradeSize(proposer, size, MaxAdminCalls)
    \/ \E pid \in ProposalIds, signer \in Signers :
          ApproveMaxTradeSize(pid, signer, MaxAdminCalls)
    \/ \E pid \in ProposalIds, size \in SizeValues :
          ExecuteMaxTradeSize(pid, size, MaxAdminCalls)
    \/ \E t \in PhaseClock : Advance(t)

SpecAdmin == Init /\ [][NextAdmin]_vars

\* controller.guardian_override(proof, reason)
GuardianOverride(proof, reason, limit) ==
    /\ LoggedCalls < limit
    /\ SetController("guardian_override",
                     admin_guardian_override(ControllerValue, proof, reason,
                                             clock_secs))
    /\ UNCHANGED <<cancelled_ops, queued_moment, sealed>>

\* The proofs guardian_override is called with: proofs made by two guardians
\* and by an outsider; a guardian's proof with another message, with another
\* s, and an outsider's proof relabelled with a guardian's public key; and a
\* proof assembled from a guardian's public key alone.
OverrideProofs ==
    LET g1 == make_schnorr_proof(GuardianKeys[1], Str_a)
        g2 == make_schnorr_proof(GuardianKeys[2], Str_ab)
        out == make_schnorr_proof(OutsiderKey, Str_a)
        pk3 == PubkeyOf(GuardianKeys[3])
        e3 == Hash3(BlockBytes(Raw(7)), BlockBytes(pk3), Bytes(Str_c))
    IN  { g1, g2, out,
          [g1 EXCEPT !.message = Str_ab],
          [g1 EXCEPT !.s_bytes = Raw(7)],
          [out EXCEPT !.pubkey = g1.pubkey],
          [r_bytes |-> Raw(7),
           s_bytes |-> Hash3(BlockBytes(Raw(7)), BlockBytes(pk3),
                             BlockBytes(e3)),
           pubkey |-> pk3, message |-> Str_c] }

OverrideReasons == {Str_x, Str_t}

NextOverride ==
    \/ \E proof \in OverrideProofs, reason \in OverrideReasons :
          GuardianOverride(proof, reason, MaxOverrideCalls)
    \/ \E t \in PhaseClock : Advance(t)

SpecOverride == InitKeyed /\ [][NextOverride]_vars

\* The elapsed times from_elapsed is applied to: the first seconds, the
\* middle and the last seconds of each of the first MaxMonths + 1 months.
ElapsedInputs ==
    {m * SECS_PER_MONTH + d :
        m \in 0..MaxMonths,
        d \in {0, 1, 2, SECS_PER_MONTH \div 2, SECS_PER_MONTH - 2,
               SECS_PER_MONTH - 1}}

\* GovernancePhase::from_elapsed(elapsed): the argument is kept in clock_secs
\* and the phase returned in gov_last.
FromElapsed(elapsed) ==
    /\ clock_secs' = elapsed
    /\ gov_last' = [op |-> "from_elapsed", result |-> Ok(from_elapsed(elapsed))]
    /\ UNCHANGED <<state, governance, cancelled_ops, queued_moment, sealed,
                   auditVars>>

NextPhase == \E elapsed \in ElapsedInputs : FromElapsed(elapsed)

SpecPhase == Init /\ [][NextPhase]_vars

\* controller.governance.tick()
GovTick(limit) ==
    /\ LoggedCalls < limit
    /\ SetGovernance("tick", tick(governance, clock_secs), Ok(<<>>))
    /\ UNCHANGED <<cancelled_ops, queued_moment, sealed>>

\* The clock readings at which tick is called: inside each phase and at the
\* first and last seconds of the phases.
TickClock ==
    {1, 3 * SECS_PER_MONTH - 1, 3 * SECS_PER_MONTH, 6 * SECS_PER_MONTH - 1,
     6 * SECS_PER_MONTH, 12 * SECS_PER_MONTH - 1, 12 * SECS_PER_MONTH,
     13 * SECS_PER_MONTH}

NextTick ==
    \/ GovTick(MaxTickCalls)
    \/ QueueOperation([description |-> Str_a, payload |-> Str_bc],
                      MaxTickCalls)
    \/ PauseTrading(Str_admin)
    \/ \E t \in TickClock : Advance(t)

SpecTick == Init /\ [][NextTick]_vars

\* ================================================================ claims
Evicted == counter - Len(events) - Len(pending_batch)

\* A step that is a call of flush_batch (Tick moves the clock, SetRetention
\* changes the policy, record leaves "record" in `last`).
FlushCall == last'.op = "flush" /\ now' = now /\ retention' = retention

\* Position i of committed storage holds an event some preimage field of
\* which differs from what was committed (its event_hash is as committed).
PreimageAltered(i) ==
    \E f \in PreimageFields : events[i][f] # Original(events[i])[f]
AlteredFields(i) ==
    {f \in TamperFields : events[i][f] # Original(events[i])[f]}

\* C1: every committed event after the first in storage has prev_hash equal
\* to the event_hash of the committed event before it.
C1_ChainLinked ==
    \A i \in 2..Len(events) : events[i].prev_hash = events[i - 1].event_hash

\* C2: on a log built by record and flush_batch only, verify_chain() returns
\* Ok and forensic_export reports chain_valid = true.
C2_VerifyChainOk ==
    /\ verify_chain(events).kind = "Ok"
    /\ forensic_export(events, merkle, "INC-1", now).chain_valid

\* C3: a committed event one or more preimage fields of which were changed
\* without updating event_hash is not self-consistent, and verify_chain()
\* returns an error.
C3_PreimageTamperDetected ==
    \A i \in 1..Len(events) :
        PreimageAltered(i) =>
            /\ ~is_self_consistent(events[i])
            /\ verify_chain(events).kind # "Ok"

\* C4: when one preimage field of committed event k (and nothing else) has
\* been altered in a log whose chain verified as committed, verify_chain()
\* fails at event k with a self-hash mismatch, and verify_event_integrity of
\* the next event fails with a chain-broken error naming predecessor k.
C4_TamperLocated ==
    \A k \in 1..Len(events) :
        ( /\ verify_chain(Originals).kind = "Ok"
          /\ Cardinality(AlteredFields(k)) = 1
          /\ PreimageAltered(k)
          /\ \A j \in 1..Len(events) : j # k => AlteredFields(j) = {} )
        =>
        /\ verify_chain(events).kind = "HashInvalid"
        /\ verify_chain(events).pos = k
        /\ k < Len(events) =>
              LET r == verify_event_integrity(events, index, merkle,
                                              Originals[k + 1].id)
              IN  r.kind = "ChainBroken" /\ r.at = Originals[k].id

\* C5: the event hash commits every field except event_hash: an event that
\* differs from the committed one in any other field, category and severity
\* included, has a different canonical hash, and verify_chain() fails.
C5_EveryFieldCommitted ==
    \A i \in 1..Len(events) :
        AlteredFields(i) # {} =>
            /\ compute_hash(events[i]) # compute_hash(Original(events[i]))
            /\ verify_chain(events).kind # "Ok"

\* C6: the k-th call of record returns k; committed events are stored in
\* strictly increasing id order and every pending id is larger than every
\* committed id.
C6_IdsSequential ==
    /\ last.op = "record" => last.val = calls
    /\ \A i \in 1..(Len(events) - 1) : events[i].id < events[i + 1].id
    /\ \A i \in 1..Len(events), j \in 1..Len(pending_batch) :
          events[i].id < pending_batch[j].id

C6_Witness ==
    /\ last.op = "record" /\ last.val = 3
    /\ Len(events) = 1 /\ Len(pending_batch) = 1 /\ Evicted = 1

\* C7: the cached Merkle root equals the root recomputed by the CLI's fold
\* from the committed event hashes, is none exactly when nothing is
\* committed, and merkle-check accepts the report forensic_export produces.
CachedRoot == IF IsSome(merkle) THEN MerkleRoot(Unwrap(merkle)) ELSE None

C7_MerkleCacheFresh ==
    /\ IsSome(CachedRoot) <=> Len(events) > 0
    /\ CachedRoot = merkle_root(EventHashes(events))
    /\ cmd_merkle_check(forensic_export(events, merkle, "INC-1", now))

C7_Witness ==
    /\ last.op = "flush" /\ last.val > 0
    /\ Len(events) = 2 /\ Evicted = 1 /\ IsSome(CachedRoot)

\* Verification of an inclusion proof: fold the leaf with the siblings, the
\* sibling on the right when the running index is even, on the left when odd.
RECURSIVE FoldProof(_, _, _)
FoldProof(current, proof, idx) ==
    IF Len(proof) = 0 THEN current
    ELSE FoldProof(IF idx % 2 = 0 THEN HashPair(current, proof[1])
                   ELSE HashPair(proof[1], current),
                   Tail(proof), idx \div 2)

NoFilter ==
    [actor |-> None, action |-> None, category |-> None, severity_min |-> None,
     time_from |-> None, time_to |-> None]

Filters ==
    { NoFilter,
      [NoFilter EXCEPT !.actor = Some(Str_a)],
      [NoFilter EXCEPT !.action = Some(Str_c)],
      [NoFilter EXCEPT !.category = Some("Trading")],
      [NoFilter EXCEPT !.severity_min = Some("Warning")],
      [NoFilter EXCEPT !.time_from = Some(0), !.time_to = Some(0)] }

\* C8: for the tree of every non-empty log and every leaf index, the proof
\* holds one sibling per level below the root and folds with the leaf to the
\* root; so does the proof query_events returns with each event.
C8_ProofsVerify ==
    IsSome(merkle) =>
        LET t == Unwrap(merkle)
        IN  /\ \A i \in 0..(Len(t.leaves) - 1) :
                  /\ Len(MerkleProof(t, i)) = Len(t.levels) - 1
                  /\ Some(FoldProof(t.leaves[i + 1], MerkleProof(t, i), i))
                        = MerkleRoot(t)
            /\ \A f \in Filters :
                  LET hits == query_events(events, merkle, f)
                  IN  \A k \in 1..Len(hits) :
                         Some(FoldProof(hits[k].event.event_hash,
                                        hits[k].proof, hits[k].idx))
                            = MerkleRoot(t)

C8_Witness ==
    /\ IsSome(merkle)
    /\ Len(Unwrap(merkle).leaves) = 5
    /\ Len(MerkleProof(Unwrap(merkle), 4)) = 3
    /\ Len(query_events(events, merkle,
                        [NoFilter EXCEPT !.actor = Some(Str_a)])) = 2

\* C9: a flush_batch that commits at least one event leaves committed
\* exactly the previously committed and newly flushed events whose timestamp
\* is >= now - hot_retention_ns (saturating at 0), in their original order.
C9_RetentionExact ==
    [][ (FlushCall /\ Len(pending_batch) > 0) =>
            events' = SelectSeq(events \o pending_batch,
                                LAMBDA e : e.timestamp >=
                                    (IF now >= retention.hot_retention_ns
                                     THEN now - retention.hot_retention_ns
                                     ELSE 0)) ]_vars

C9_Witness ==
    /\ last.op = "flush" /\ last.val > 0
    /\ retention.hot_retention_ns = 1
    /\ Evicted = 1 /\ Len(events) = 2

TimelockEntries == governance.timelock.entries

\* The entry exists, is neither executed nor cancelled, its eta has come and
\* the payload hashes to the committed payload_hash.
Executable(entries, op, payload, nowv) ==
    /\ op \in DOMAIN entries
    /\ ~entries[op].executed
    /\ ~entries[op].cancelled
    /\ nowv >= entries[op].eta
    /\ PayloadHash(payload) = entries[op].payload_hash

\* C11: in every state the timelock reaches, execute(op, payload) succeeds
\* exactly when the entry exists, is neither executed nor cancelled,
\* now >= eta and H(payload) = payload_hash; a success sets executed on that
\* entry and changes nothing else, and every failure leaves all entries as
\* they were.
C11_ExecuteIffReady ==
    \A op \in OperationIds, payload \in Payloads :
        LET x == Timelock_execute(TimelockEntries, op, payload, clock_secs)
        IN  /\ x.result.ok <=> Executable(TimelockEntries, op, payload,
                                           clock_secs)
            /\ x.result.ok =>
                  /\ x.entries[op].executed
                  /\ x.entries =
                        [TimelockEntries EXCEPT ![op].executed = TRUE]
            /\ ~x.result.ok => x.entries = TimelockEntries

\* An execute has just succeeded at the eta of its entry and with its
\* payload, the other payload would have been refused, and an entry queued a
\* second later is refused for one second more.
C11_Witness ==
    /\ gov_last.op = "execute_operation" /\ gov_last.result.ok
    /\ \E op \in DOMAIN TimelockEntries :
          /\ TimelockEntries[op].executed
          /\ TimelockEntries[op].eta = clock_secs
          /\ \E payload \in Payloads :
                PayloadHash(payload) # TimelockEntries[op].payload_hash
    /\ \E op \in DOMAIN TimelockEntries, payload \in Payloads :
          Timelock_execute(TimelockEntries, op, payload, clock_secs).result
             = Err("NotExpired", <<1>>)

\* The entry of op is executed after the step and was not before it.
BecomesExecuted(op) ==
    /\ op \in DOMAIN TimelockEntries'
    /\ TimelockEntries'[op].executed
    /\ ~(op \in DOMAIN TimelockEntries /\ TimelockEntries[op].executed)

\* C12: an operation queued through queue_operation, directly or by
\* queue_set_fee_bps, becomes executed only in a call made at least
\* TIMELOCK_DELAY_SECS (72 hours) after the call that queued it.
C12_NotBeforeDelay ==
    [][ \A op \in DOMAIN TimelockEntries' :
            BecomesExecuted(op) =>
                /\ op \in DOMAIN queued_moment
                /\ clock_secs >= queued_moment[op] + TIMELOCK_DELAY_SECS ]_vars

\* A fee change queued at deployment has been executed exactly 72 hours
\* later, one second after the same call was refused.
C12_Witness ==
    /\ gov_last.op = "execute_set_fee_bps" /\ gov_last.result.ok
    /\ state.fee_bps = 25
    /\ clock_secs = TIMELOCK_DELAY_SECS
    /\ \E op \in DOMAIN TimelockEntries :
          /\ TimelockEntries[op].executed
          /\ queued_moment[op] = 0
          /\ Timelock_execute(
                 [TimelockEntries EXCEPT ![op].executed = FALSE], op,
                 to_le_bytes(25, 2), TIMELOCK_DELAY_SECS - 1).result
                = Err("NotExpired", <<1>>)

\* C13: once a cancel has succeeded for an operation id, no later call makes
\* the entry of that id executed, whatever queue, cancel and execute calls
\* come in between.
C13_CancelledNeverExecutes ==
    [][ \A op \in DOMAIN TimelockEntries' :
            BecomesExecuted(op) => op \notin cancelled_ops ]_vars

\* C14: in every state the timelock reaches, cancel_operation on an entry
\* that is already executed or already cancelled returns a Terminal error
\* (already executed, or cancelled) and leaves the contract, its entries and
\* its governance log included, as it was.
C14_CancelOnlyPending ==
    \A op \in DOMAIN TimelockEntries :
        (TimelockEntries[op].executed \/ TimelockEntries[op].cancelled) =>
            LET x == cancel_operation(governance, op, clock_secs)
            IN  /\ ~x.result.ok
                /\ x.result.err \in {"AlreadyExecuted", "Cancelled"}
                /\ x.gov.timelock.entries[op] = TimelockEntries[op]
                /\ x.gov.log = governance.log

Proposals == governance.multisig.proposals

\* C15: in every state the coordinator reaches, execute(pid, payload)
\* succeeds exactly when the proposal exists, is neither executed nor
\* rejected, has at least 3 approvals and H(payload) = payload_hash; below
\* quorum it fails with insufficient approvals (have, 3) whatever the
\* payload; a success sets executed on that proposal only and a failure
\* leaves every proposal as it was.
C15_ExecuteIffQuorum ==
    \A pid \in ProposalIds, payload \in Payloads :
        LET x == MultiSig_execute(Proposals, pid, payload)
            open == /\ pid \in DOMAIN Proposals
                    /\ ~Proposals[pid].executed
                    /\ ~Proposals[pid].rejected
        IN  /\ x.result.ok <=>
                  /\ open
                  /\ Cardinality(Proposals[pid].approvals) >= 3
                  /\ PayloadHash(payload) = Proposals[pid].payload_hash
            /\ (open /\ Cardinality(Proposals[pid].approvals) < 3) =>
                  x.result = Err("InsufficientApprovals",
                                 <<Cardinality(Proposals[pid].approvals), 3>>)
            /\ x.result.ok =>
                  x.proposals = [Proposals EXCEPT ![pid].executed = TRUE]
            /\ ~x.result.ok => x.proposals = Proposals

\* A proposal with three approvals has just been executed with its payload;
\* the other payload does not hash to its payload_hash.
C15_Witness ==
    /\ gov_last.op = "execute_multisig" /\ gov_last.result.ok
    /\ \E pid \in DOMAIN Proposals :
          /\ Proposals[pid].executed
          /\ Cardinality(Proposals[pid].approvals) = 3
          /\ \E payload \in Payloads :
                PayloadHash(payload) # Proposals[pid].payload_hash

AuthorizedSigners == governance.multisig.authorized_signers

\* C16: in every state the coordinator reaches, approve(pid, signer) by a
\* signer already in the approval set of an open proposal returns the count
\* the set already had and leaves every proposal unchanged; every approve
\* that succeeds returns the size of the approval set it leaves; and each
\* approval set holds authorized signers only, the proposer among them.
C16_ApproveIsSetInsert ==
    \A pid \in DOMAIN Proposals :
        /\ Proposals[pid].approvals \subseteq AuthorizedSigners
        /\ Proposals[pid].proposer \in Proposals[pid].approvals
        /\ \A signer \in Signers :
              LET x == MultiSig_approve(Proposals, AuthorizedSigners, pid,
                                        signer)
              IN  /\ x.result.ok =>
                        x.result.val[1] =
                            Cardinality(x.proposals[pid].approvals)
                  /\ (signer \in Proposals[pid].approvals /\ x.result.ok) =>
                        /\ x.proposals = Proposals
                        /\ x.result.val[1] =
                              Cardinality(Proposals[pid].approvals)
                  /\ (signer \in Proposals[pid].approvals
                         /\ ~Proposals[pid].executed) => x.result.ok

\* The last two entries of the governance log are approvals of one proposal
\* that both returned 2: the second is a repeated approve by a signer already
\* in the set, which still holds the proposer and one more.
C16_Witness ==
    /\ gov_last.op = "approve_multisig"
    /\ gov_last.result = Ok(2)
    /\ LoggedCalls >= 3
    /\ \E pid \in DOMAIN Proposals :
          /\ Cardinality(Proposals[pid].approvals) = 2
          /\ Proposals[pid].proposer \in Proposals[pid].approvals
          /\ governance.log.entries[governance.log.seq].event.count = 2
          /\ governance.log.entries[governance.log.seq - 1].event.type
                = "ProposalApproved"
          /\ governance.log.entries[governance.log.seq - 1].event.count = 2

\* C17: once execute has succeeded for a proposal id, in every later state
\* the proposal of that id is executed and has the approval set the execute
\* left, and every approve and every execute on that id fails, whatever
\* propose, approve and execute calls came in between.
C17_ExecutedIsTerminal ==
    \A pid \in DOMAIN sealed :
        /\ pid \in DOMAIN Proposals
        /\ Proposals[pid].executed
        /\ Proposals[pid].approvals = sealed[pid].approvals
        /\ \A signer \in Signers :
              ~MultiSig_approve(Proposals, AuthorizedSigners, pid,
                                signer).result.ok
        /\ \A payload \in Payloads :
              ~MultiSig_execute(Proposals, pid, payload).result.ok

Phase == current_phase(governance, clock_secs)

\* C18: in every state of the PauseOnly phase, set_fee_bps_direct called by
\* the admin returns a phase-not-allowed error and leaves the controller,
\* fee_bps included, as it was, and pause_trading and resume_trading called
\* by the admin succeed and set and clear trading_paused.
C18_PauseOnlyGate ==
    Phase = "PauseOnly" =>
        /\ \A fee \in FeeValues :
              LET r == set_fee_bps_direct(ControllerValue, Str_admin, fee,
                                          clock_secs)
              IN  /\ ~r.result.ok
                  /\ r.result.err = "PhaseNotAllowed"
                  /\ r.ctl.state.fee_bps = state.fee_bps
                  /\ r.ctl = ControllerValue
        /\ LET r == pause_trading(ControllerValue, Str_admin, clock_secs)
           IN  r.result.ok /\ r.ctl.state.trading_paused
        /\ LET r == resume_trading(ControllerValue, Str_admin, clock_secs)
           IN  r.result.ok /\ ~r.ctl.state.trading_paused

\* The admin's set_fee_bps_direct has just been refused in PauseOnly, with
\* trading paused and the fee still the one set directly in FullAdmin.
C18_Witness ==
    /\ Phase = "PauseOnly"
    /\ gov_last.op = "set_fee_bps_direct"
    /\ gov_last.result = Err("PhaseNotAllowed", <<"PauseOnly">>)
    /\ state.trading_paused
    /\ state.fee_bps = 25

\* C19: no admin operation called while the phase is DaoOnly changes the
\* ContractState, also when it is called on a timelock entry or a proposal
\* created in an earlier phase (each such call is to be refused with a
\* phase-not-allowed error).
C19_DaoOnlyStateFrozen ==
    [][ Phase = "DaoOnly" => state' = state ]_vars

\* The call was refused with a phase-not-allowed error and changed nothing.
Denied(r) ==
    /\ ~r.result.ok
    /\ r.result.err = "PhaseNotAllowed"
    /\ r.ctl = ControllerValue

\* C20: in every state of the MultiSig phase, pause_trading, resume_trading,
\* set_fee_bps_direct and queue_set_fee_bps called by the admin are denied,
\* and propose_max_trade_size by an authorized signer is accepted.
C20_MultiSigGate ==
    Phase = "MultiSig" =>
        /\ Denied(pause_trading(ControllerValue, Str_admin, clock_secs))
        /\ Denied(resume_trading(ControllerValue, Str_admin, clock_secs))
        /\ \A fee \in FeeValues :
              /\ Denied(set_fee_bps_direct(ControllerValue, Str_admin, fee,
                                           clock_secs))
              /\ Denied(queue_set_fee_bps(ControllerValue, Str_admin, fee,
                                          clock_secs))
        /\ \A size \in SizeValues :
              propose_max_trade_size(ControllerValue, Str_g1, size,
                                     clock_secs).result.ok

\* C21: in every state of the FullAdmin and PauseOnly phases,
\* propose_max_trade_size by an authorized signer is accepted and creates the
\* proposal, with the proposer's approval, under the id it returns.
C21_EarlyProposalAllowed ==
    Phase \in {"FullAdmin", "PauseOnly"} =>
        \A size \in SizeValues :
            LET r == propose_max_trade_size(ControllerValue, Str_g1, size,
                                            clock_secs)
            IN  /\ r.result.ok
                /\ r.result.val[1]
                      \in DOMAIN r.ctl.governance.multisig.proposals

GovLog == governance.log

\* C22: in every state, whatever the phase, guardian_override(proof, reason)
\* succeeds exactly when hex(proof.pubkey) is an authorized signer and
\* s == H(r || pubkey || H(r || pubkey || message)); a success appends one
\* GuardianOverride entry naming the guardian and the reason and changes
\* nothing else, a failure changes nothing; and every proof made by
\* make_schnorr_proof passes the proof check.
C22_OverrideIffValid ==
    /\ \A i \in 1..6, message \in {Str_a, Str_ab, Str_c} :
          verify_schnorr_proof_test_compat(
              make_schnorr_proof((GuardianKeys \o <<OutsiderKey>>)[i],
                                 message))
    /\ \A proof \in OverrideProofs, reason \in OverrideReasons :
          LET x == guardian_override(governance, proof, reason, clock_secs)
              r == BlockBytes(proof.r_bytes)
              pk == BlockBytes(proof.pubkey)
              valid ==
                  /\ HexEncode(proof.pubkey) \in AuthorizedSigners
                  /\ proof.s_bytes =
                        Hash3(r, pk,
                              BlockBytes(Hash3(r, pk, Bytes(proof.message))))
          IN  /\ x.result.ok <=> valid
              /\ x.result.ok =>
                    /\ Len(x.gov.log.entries) = Len(GovLog.entries) + 1
                    /\ SubSeq(x.gov.log.entries, 1, Len(GovLog.entries))
                          = GovLog.entries
                    /\ x.gov.log.entries[Len(GovLog.entries) + 1].event
                          = [type |-> "GuardianOverride",
                             guardian |-> HexEncode(proof.pubkey),
                             reason |-> reason]
                    /\ [x.gov EXCEPT !.log = GovLog] = governance
              /\ ~x.result.ok => x.gov = governance

\* An override has just succeeded in the DaoOnly phase: the last entry of
\* the log is a GuardianOverride stamped with the present clock reading, and
\* the proofs of an outsider and of a wrong s are refused in this state.
C22_Witness ==
    /\ Phase = "DaoOnly"
    /\ gov_last.op = "guardian_override" /\ gov_last.result.ok
    /\ GovLog.entries[GovLog.seq].event.type = "GuardianOverride"
    /\ GovLog.entries[GovLog.seq].timestamp = clock_secs
    /\ \E proof \in OverrideProofs :
          guardian_override(governance, proof, Str_x, clock_secs).result.err
             = "NotAuthorizedGuardian"
    /\ \E proof \in OverrideProofs :
          guardian_override(governance, proof, Str_x, clock_secs).result.err
             = "InvalidProof"

\* C23: every step that changes the ContractState (trading_paused, fee_bps
\* or max_trade_size) appends an entry to the governance log.
C23_StateChangeLogged ==
    [][ state' # state =>
            Len(governance'.log.entries) > Len(GovLog.entries) ]_vars

Appended == Len(GovLog.entries) + 1 .. Len(governance'.log.entries)

\* C25: the clock never decreasing, no step takes current_phase() back to
\* an earlier phase, and every PhaseTransition entry a step appends has
\* `from` strictly earlier than `to`.
C25_PhaseNeverReturns ==
    [][ /\ PhaseRank(Phase') >= PhaseRank(Phase)
        /\ \A i \in Appended :
              LET event == governance'.log.entries[i].event
              IN  event.type = "PhaseTransition" =>
                      PhaseRank(event.from) < PhaseRank(event.to) ]_vars

\* A tick first called in the DaoOnly phase has logged the transition from
\* FullAdmin to DaoOnly.
C25_Witness ==
    /\ Phase = "DaoOnly"
    /\ gov_last.op = "tick"
    /\ GovLog.entries[GovLog.seq].event
          = [type |-> "PhaseTransition", from |-> "FullAdmin",
             to |-> "DaoOnly"]

\* A step that is a call of tick.
TickCall == gov_last'.op = "tick" /\ clock_secs' = clock_secs

\* C26: a call of tick appends one PhaseTransition entry, from the phase
\* last reported to the current phase, exactly when the two differ, and
\* otherwise changes nothing; a tick right after it appends nothing; and no
\* step other than a call of tick appends a PhaseTransition entry.
C26_TickLogsCrossing ==
    [][ IF TickCall
        THEN IF Phase # governance.last_reported_phase
             THEN /\ Len(governance'.log.entries) = Len(GovLog.entries) + 1
                  /\ SubSeq(governance'.log.entries, 1, Len(GovLog.entries))
                        = GovLog.entries
                  /\ governance'.log.entries[Len(GovLog.entries) + 1].event
                        = [type |-> "PhaseTransition",
                           from |-> governance.last_reported_phase,
                           to |-> Phase]
                  /\ tick(governance', clock_secs').log = governance'.log
             ELSE governance' = governance
        ELSE \A i \in Appended :
                governance'.log.entries[i].event.type # "PhaseTransition"
      ]_vars

\* Three ticks, one in each later phase, have logged the three crossings in
\* order.
C26_Witness ==
    /\ gov_last.op = "tick"
    /\ GovLog.seq = 5
    /\ GovLog.entries[3].event = [type |-> "PhaseTransition",
                                  from |-> "FullAdmin", to |-> "PauseOnly"]
    /\ GovLog.entries[4].event = [type |-> "PhaseTransition",
                                  from |-> "PauseOnly", to |-> "MultiSig"]
    /\ GovLog.entries[5].event = [type |-> "PhaseTransition",
                                  from |-> "MultiSig", to |-> "DaoOnly"]

\* C27: after deploy and after every append the governance log verifies:
\* verify_chain() is true, the seq values are 1, 2, 3, ... in append order,
\* the first entry's prev_hash is all zeros, every later entry's prev_hash
\* is its predecessor's entry_hash, and every entry_hash is the hash of its
\* entry.
C27_GovernanceChainValid ==
    /\ GovernanceLog_verify_chain(GovLog)
    /\ GovLog.seq = Len(GovLog.entries)
    /\ \A i \in 1..Len(GovLog.entries) :
          LET e == GovLog.entries[i]
          IN  /\ e.seq = i
              /\ e.prev_hash = IF i = 1 THEN ZeroHash
                               ELSE GovLog.entries[i - 1].entry_hash
              /\ e.entry_hash =
                    Finalize(HashUpdate(HashUpdate(HashUpdate(HashUpdate(
                        Sha256New, Bytes(to_le_bytes(e.seq, 8))),
                        Bytes(to_le_bytes(e.timestamp, 8))),
                        JsonBytes(e.event)), BlockBytes(e.prev_hash)))

\* Four calls at three clock readings have been appended after the two
\* entries of deploy, a queue, a cancel and an execute among them.
C27_Witness ==
    /\ Len(GovLog.entries) = 6
    /\ GovLog.entries[6].timestamp > GovLog.entries[3].timestamp
    /\ GovLog.entries[3].timestamp > 0
    /\ \E i \in 3..6 : GovLog.entries[i].event.type = "TimelockCancelled"
    /\ \E i \in 3..6 : GovLog.entries[i].event.type = "TimelockExecuted"

\* ------------------------------------------------- the sealed schedule
\* GovernanceContract::deploy(guardian_addresses, dao_address) at the current
\* clock reading, replacing the controller's contract; the constructor of the
\* schedule panics on a wrong number of guardians and nothing is built.
Deploy(guardian_addresses, dao_address) ==
    /\ IF Schedule_new_precondition(guardian_addresses)
       THEN /\ governance' = deploy(guardian_addresses, dao_address, clock_secs)
            /\ gov_last' = [op |-> "deploy", result |-> Ok(<<>>)]
       ELSE /\ gov_last' = [op |-> "deploy", result |-> Err("panic", <<>>)]
            /\ UNCHANGED governance
    /\ UNCHANGED <<state, clock_secs, cancelled_ops, queued_moment, sealed,
                   auditVars>>

\* Assignments to the public fields deployed_at, guardian_addresses and
\* dao_address of controller.governance.schedule; commitment_hash is left
\* as it is.
TamperSchedule(deployed_at, guardian_addresses, dao_address) ==
    /\ governance' = [governance EXCEPT
                         !.schedule.deployed_at = deployed_at,
                         !.schedule.guardian_addresses = guardian_addresses,
                         !.schedule.dao_address = dao_address]
    /\ governance' # governance
    /\ gov_last' = [op |-> "tamper", result |-> Ok(<<>>)]
    /\ UNCHANGED <<state, clock_secs, cancelled_ops, queued_moment, sealed,
                   auditVars>>

\* controller.governance.schedule.verify_commitment()
VerifyCommitment ==
    /\ gov_last' = [op |-> "verify_commitment",
                    result |-> Ok(Schedule_verify_commitment(governance.schedule))]
    /\ UNCHANGED <<state, governance, clock_secs, cancelled_ops, queued_moment,
                   sealed, auditVars>>

\* The UTF-8 bytes of "g4g", "5", "g5d" and "ao".
Str_g4g == "673467"
Str_5 == "35"
Str_g5d == "673564"
Str_ao == "616f"

\* The guardian lists, DAO addresses and deployment times the schedule is
\* built from and altered to: the deployed values, a foreign first guardian,
\* a byte moved from the fifth guardian to the fourth, a byte moved from the
\* DAO address to the fifth guardian, and lists of four and of six.
GuardianLists ==
    { Guardians,
      <<Str_mallory, Str_g2, Str_g3, Str_g4, Str_g5>>,
      <<Str_g1, Str_g2, Str_g3, Str_g4g, Str_5>>,
      <<Str_g1, Str_g2, Str_g3, Str_g4, Str_g5d>> }
BadGuardianLists ==
    { <<Str_g1, Str_g2, Str_g3, Str_g4>>,
      <<Str_g1, Str_g2, Str_g3, Str_g4, Str_g5, Str_mallory>> }
DaoAddresses == {Str_dao, Str_ao, Str_mallory}
DeployTimes == {0, 1}

NextSchedule ==
    \/ \E g \in GuardianLists \cup BadGuardianLists, d \in DaoAddresses :
          Deploy(g, d)
    \/ \E t \in DeployTimes, g \in GuardianLists, d \in DaoAddresses :
          TamperSchedule(t, g, d)
    \/ VerifyCommitment
    \/ \E t \in DeployTimes : Advance(t)

SpecSchedule == Init /\ [][NextSchedule]_vars

\* The sealed fields of a schedule.
SealedFields(s) == <<s.deployed_at, s.guardian_addresses, s.dao_address>>

\* C28: a schedule is constructed only with exactly 5 guardian addresses and
\* verifies after construction, and once its sealed fields (deployed_at, the
\* guardian addresses, dao_address) have been changed while commitment_hash
\* was left alone, verify_commitment() is false.
C28_TamperDetected ==
    [][ /\ gov_last'.op = "deploy" =>
              /\ Schedule_new_precondition(governance'.schedule.guardian_addresses)
              /\ IF gov_last'.result.ok
                 THEN Schedule_verify_commitment(governance'.schedule)
                 ELSE governance' = governance
        /\ ( /\ gov_last'.op = "tamper"
             /\ Schedule_verify_commitment(governance.schedule)
             /\ SealedFields(governance'.schedule) # SealedFields(governance.schedule)
             /\ governance'.schedule.commitment_hash
                   = governance.schedule.commitment_hash )
           => ~Schedule_verify_commitment(governance'.schedule) ]_vars

\* ------------------------------------------------- the anomaly detector
\* The detector's share of log.record(...) at clock reading `now`: the event
\* is built with the next id, anomaly_detector.inspect sees it and its alert,
\* if any, is pushed (record, lines 337-359). The batch the event then joins
\* is not followed here.
Inspect(inp, limit) ==
    /\ counter < limit
    /\ LET e == NewEvent(NextCounter(counter), now, inp, LinkTarget(events))
           seen == inspect(anomaly_detector, e, now)
       IN  /\ anomaly_detector' = seen.detector
           /\ anomaly_alerts' = IF IsSome(seen.alert)
                                THEN Append(anomaly_alerts, Unwrap(seen.alert))
                                ELSE anomaly_alerts
           /\ counter' = e.id
           /\ last' = [op |-> "inspect", val |-> e.id]
    /\ calls' = calls + 1
    /\ UNCHANGED <<events, index, merkle, pending_batch, retention, now,
                   archived, orig, tampers, govVars>>

\* The wall clock moves on to reading t between two calls.
AnomalyAdvance(t) ==
    /\ t > now
    /\ now' = t
    /\ UNCHANGED <<events, index, counter, merkle, pending_batch,
                   anomaly_detector, anomaly_alerts, retention, archived, last,
                   calls, orig, tampers, govVars>>

\* The clock readings after the first: 60 s and 90 s after it, the last
\* reading inside a window opened at the start and the first one past it.
AnomalyClock == {TRADE_WINDOW_NS, TRADE_WINDOW_NS + 1}

\* The event ids at which other traffic is recorded: the first ones, enough
\* of them for an administrative burst to exceed its limit.
SideSlots == 1..(MAX_ADMIN_PER_WINDOW + 1)

\* One actor's trades, and the other traffic recorded in the side slots: the
\* same actor's administrative, security and system
\* events and another actor's trades.
TradeInput(actor) ==
    [actor |-> actor, action |-> Str_c, target |-> Str_t, result |-> Str_OK,
     gas_used |-> 21000, state_hash |-> Raw(1), category |-> "Trading",
     severity |-> "Info"]
SideInput(actor, category) ==
    [actor |-> actor, action |-> Str_bc, target |-> Str_t, result |-> Str_OK,
     gas_used |-> 0, state_hash |-> Raw(2), category |-> category,
     severity |-> "Warning"]
SideInputs ==
    { TradeInput(Str_a), SideInput(Str_ab, "Administrative"),
      SideInput(Str_ab, "Security"), SideInput(Str_ab, "System") }
AnomalyInputs == {TradeInput(Str_ab)} \cup SideInputs

NextAnomaly ==
    \/ Inspect(TradeInput(Str_ab), MaxInspected)
    \/ \E inp \in SideInputs :
          NextCounter(counter) \in SideSlots /\ Inspect(inp, MaxInspected)
    \/ \E t \in AnomalyClock : AnomalyAdvance(t)

SpecAnomaly == Init /\ [][NextAnomaly]_vars

\* What C29 prescribes for the event record() builds from inp at the current
\* clock reading (60 s are 2 clock units).
AnomalyExpected(inp) ==
    LET counted == inp.category \in {"Trading", "Administrative"}
        trading == inp.category = "Trading"
        w == IF trading THEN anomaly_detector.trade_window
             ELSE anomaly_detector.admin_window
        w2 == IF trading THEN anomaly_detector'.trade_window
              ELSE anomaly_detector'.admin_window
        known == inp.actor \in DOMAIN w
        expired == known /\ now - w[inp.actor][1] > 2
        newstart == IF expired \/ ~known THEN now ELSE w[inp.actor][1]
        newcount == IF expired \/ ~known THEN 1 ELSE w[inp.actor][2] + 1
        raised == ~expired /\ newcount > (IF trading THEN 50 ELSE 5)
    IN  IF ~counted
        THEN /\ anomaly_detector' = anomaly_detector
             /\ anomaly_alerts' = anomaly_alerts
        ELSE /\ DOMAIN w2 = DOMAIN w \cup {inp.actor}
             /\ w2[inp.actor] = <<newstart, newcount>>
             /\ \A a \in DOMAIN w : a # inp.actor => w2[a] = w[a]
             /\ IF trading
                THEN anomaly_detector'.admin_window = anomaly_detector.admin_window
                ELSE anomaly_detector'.trade_window = anomaly_detector.trade_window
             /\ IF raised
                THEN /\ Len(anomaly_alerts') = Len(anomaly_alerts) + 1
                     /\ SubSeq(anomaly_alerts', 1, Len(anomaly_alerts))
                           = anomaly_alerts
                     /\ LET alert == anomaly_alerts'[Len(anomaly_alerts')]
                        IN  /\ alert.severity = (IF trading THEN "Warning"
                                                 ELSE "Critical")
                            /\ alert.actor = inp.actor
                            /\ alert.count = newcount
                ELSE anomaly_alerts' = anomaly_alerts

NextSliding ==
    \/ Record(TradeInput(Str_ab), MaxSlidingRecords)
    \/ counter < 2 /\ Record(TradeInput(Str_a), MaxSlidingRecords)
    \/ \E t \in AnomalyClock : AnomalyAdvance(t)

SpecSliding == Init /\ [][NextSliding]_vars

\* Every event recorded so far, committed or pending, oldest first.
Recorded == events \o pending_batch

\* The number of Trading events of `actor` stamped from `lo` to `lo` + 60 s
\* (2 clock units).
TradesInSpan(actor, lo) ==
    Cardinality({i \in 1..Len(Recorded) :
                    /\ Recorded[i].actor = actor
                    /\ Recorded[i].category = "Trading"
                    /\ Recorded[i].timestamp >= lo
                    /\ Recorded[i].timestamp <= lo + 2})

\* C30: trade-volume detection is a sliding 60-second window per actor: once
\* an actor has recorded 51 Trading events whose timestamps lie within one
\* 60-second span, a Warning alert naming that actor has been raised,
\* wherever the span falls relative to the actor's earlier events.
C30_SlidingWindow ==
    \A actor \in {Str_ab, Str_a} : \A lo \in 0..now :
        TradesInSpan(actor, lo) >= 51 =>
            \E i \in 1..Len(anomaly_alerts) :
                /\ anomaly_alerts[i].severity = "Warning"
                /\ anomaly_alerts[i].actor = actor

\* ------------------------------------------------ the audit log, continued
\* The step is a call of record that left its event in the pending batch.
RecordCall ==
    /\ counter' = counter + 1
    /\ last'.op = "record"
    /\ Len(pending_batch') = Len(pending_batch) + 1

NextBatch ==
    \/ Record(TradeInput(Str_ab), MaxBatchRecords)
    \/ counter < 2 /\ Flush
    \/ \E policy \in PolicyChoices : counter = 0 /\ SetRetention(policy)
    \/ \E t \in AnomalyClock :
          /\ counter < 2 \/ Len(pending_batch) = MAX_BATCH_SIZE - 1
          /\ AnomalyAdvance(t)

SpecBatch == Init /\ [][NextBatch]_vars

\* The step is a call of record.
AnyRecordCall == counter' = counter + 1 /\ last'.op = "record"

RecordOnBuild(inp, limit, overflow_checks) ==
    /\ counter < limit
    /\ LET e == NewEvent(NextCounter(counter), now, inp, LinkTarget(events))
           seen == inspect_on_build(anomaly_detector, e, now, overflow_checks)
           L == record(LogValue, e, now, retention)
       IN  IF seen.panic
           THEN /\ counter' = e.id
                /\ last' = [op |-> "record_panic", val |-> 0]
                /\ UNCHANGED <<events, index, merkle, pending_batch, archived,
                               anomaly_detector, anomaly_alerts, orig>>
           ELSE /\ SetLog(L)
                /\ anomaly_detector' = seen.detector
                /\ anomaly_alerts' = IF IsSome(seen.alert)
                                     THEN Append(anomaly_alerts,
                                                 Unwrap(seen.alert))
                                     ELSE anomaly_alerts
                /\ last' = [op |-> "record", val |-> L.counter]
                /\ orig' = OrigFollow(orig, L.events)
    /\ calls' = calls + 1
    /\ UNCHANGED <<retention, now, tampers, govVars>>

\* SystemTime::now() is not monotonic: the wall clock is set back to t.
ClockBack(t) ==
    /\ t < now
    /\ now' = t
    /\ UNCHANGED <<events, index, counter, merkle, pending_batch,
                   anomaly_detector, anomaly_alerts, retention, archived, last,
                   calls, orig, tampers, govVars>>

NextSkew ==
    \/ \E inp \in RecordInputs, overflow_checks \in BOOLEAN :
          RecordOnBuild(inp, MaxSkewRecords, overflow_checks)
    \/ Flush
    \/ Tick
    \/ \E t \in 0..MaxClock : ClockBack(t)

SpecSkew == Init /\ [][NextSkew]_vars

\* C33: record never fails: whatever the input and the clock reading, a
\* timestamp earlier than the actor's window start included, the call
\* returns the newly assigned id and adds exactly one event to the log, and
\* an anomaly only adds an alert.
C33_RecordNeverFails ==
    [][ counter' # counter =>
          /\ last'.op = "record"
          /\ last'.val = counter + 1
          /\ Len(events') + Len(pending_batch')
                = Len(events) + Len(pending_batch) + 1
          /\ Len(anomaly_alerts') \in
                {Len(anomaly_alerts), Len(anomaly_alerts) + 1} ]_vars

\* The number of places (pending batch, committed storage, calls of the
\* archive sink) holding the event `id`.
Places(id) ==
    Cardinality({j \in 1..Len(pending_batch) : pending_batch[j].id = id})
    + Cardinality({i \in 1..Len(events) : events[i].id = id})
    + Cardinality({p \in {<<c, k>> : c \in 1..Len(archived), k \in 1..counter} :
                      p[2] <= Len(archived[p[1]]) /\ archived[p[1]][p[2]] = id})
EveryEventInOnePlace == \A id \in 1..counter : Places(id) = 1

\* C34: while an archive sink is configured, a flush that evicts events
\* passes exactly the evicted events to the sink, in one call, and a flush
\* that evicts none does not call it; so a step taken with the sink
\* configured keeps every recorded event in exactly one of the pending
\* batch, committed storage and the set handed to the sink.
C34_EvictedAreArchived ==
    [][ retention.archive_hook =>
          LET before == Ids(events \o pending_batch)
              after == IdSet(events') \cup IdSet(pending_batch')
              gone == SelectSeq(before, LAMBDA id : id \notin after)
          IN  /\ IF Len(gone) > 0 THEN archived' = Append(archived, gone)
                 ELSE archived' = archived
              /\ EveryEventInOnePlace => EveryEventInOnePlace' ]_vars

\* One flush with the sink configured evicted the first two events in one
\* call and kept the third.
C34_Witness ==
    /\ retention.archive_hook
    /\ archived = << <<1, 2>> >>
    /\ Ids(events) = <<3>>
    /\ EveryEventInOnePlace

\* C35: propose and approve called with an identity outside the authorized
\* signer set return a not-authorized error and leave every proposal (and
\* the rest of the contract) unchanged; every approval set is a subset of
\* the authorized signers, and every executed proposal had at least 3
\* distinct authorized approvers when it was executed.
C35_OutsidersRefused ==
    /\ \A who \in (Signers \cup Proposers) \ AuthorizedSigners :
          /\ \A inp \in OperationInputs :
                LET x == propose_multisig(governance, who, inp.description,
                                          inp.payload, clock_secs)
                IN  /\ ~x.result.ok
                    /\ x.result.err = "NotAuthorizedSigner"
                    /\ x.gov = governance
          /\ \A pid \in ProposalIds :
                LET x == approve_multisig(governance, pid, who, clock_secs)
                IN  /\ ~x.result.ok
                    /\ x.result.err = "NotAuthorizedSigner"
                    /\ x.gov = governance
    /\ \A pid \in DOMAIN Proposals :
          /\ Proposals[pid].approvals \subseteq AuthorizedSigners
          /\ Proposals[pid].executed =>
                Cardinality(Proposals[pid].approvals \cap AuthorizedSigners) >= 3
    /\ \A pid \in DOMAIN sealed :
          Cardinality(sealed[pid].approvals \cap AuthorizedSigners) >= 3

\* An outsider's approve has just been refused on a proposal that three
\* guardians approved and that was executed.
C35_Witness ==
    /\ gov_last.op = "approve_multisig"
    /\ ~gov_last.result.ok
    /\ gov_last.result.err = "NotAuthorizedSigner"
    /\ \E pid \in DOMAIN sealed :
          /\ Proposals[pid].executed
          /\ Cardinality(Proposals[pid].approvals) = 3

\* The call was refused because the caller is not the admin, and changed
\* neither the ContractState nor the contract (timelock queue and log).
RefusedNotAdmin(r) ==
    /\ ~r.result.ok
    /\ r.result.err = "NotAdmin"
    /\ r.ctl.state = state
    /\ r.ctl.governance.timelock = governance.timelock
    /\ r.ctl.governance.log = governance.log
    /\ r.ctl = ControllerValue

\* C36: in every phase, pause_trading, resume_trading, set_fee_bps_direct
\* and queue_set_fee_bps called by anyone other than the stored admin return
\* a not-authorized error and leave the ContractState, the timelock queue
\* and the governance log unchanged.
C36_NonAdminRefused ==
    \A caller \in Callers \ {state.admin} :
        /\ RefusedNotAdmin(pause_trading(ControllerValue, caller, clock_secs))
        /\ RefusedNotAdmin(resume_trading(ControllerValue, caller, clock_secs))
        /\ \A fee \in FeeValues :
              /\ RefusedNotAdmin(set_fee_bps_direct(ControllerValue, caller,
                                                    fee, clock_secs))
              /\ RefusedNotAdmin(queue_set_fee_bps(ControllerValue, caller,
                                                   fee, clock_secs))

\* A stranger's queue_set_fee_bps has just been refused in the DaoOnly
\* phase, where the admin's would fail on the phase, after the admin had
\* paused trading and queued a fee change.
C36_Witness ==
    /\ Phase = "DaoOnly"
    /\ gov_last.op = "queue_set_fee_bps"
    /\ ~gov_last.result.ok
    /\ gov_last.result.err = "NotAdmin"
    /\ state.trading_paused
    /\ DOMAIN governance.timelock.entries # {}

\* C37: reconstruct_state_at(until_id) returns the state_hash of the
\* committed event with the largest id <= until_id, and none when no
\* committed event has such an id, in every reachable state, after retention
\* has evicted events and while later events are pending included.
C37_ReconstructLatest ==
    \A until_id \in 0..(counter + 1) :
        LET upto == {i \in 1..Len(events) : events[i].id <= until_id}
        IN  reconstruct_state_at(events, until_id) =
               IF upto = {} THEN None
               ELSE Some(events[CHOOSE i \in upto :
                                   \A j \in upto :
                                       events[j].id <= events[i].id].state_hash)

\* The first event was evicted, the second is committed and the third is
\* pending: the state at id 1 is unknown, the state at ids 2 and 3 is the
\* second event's.
C37_Witness ==
    /\ counter = 3
    /\ Ids(events) = <<2>>
    /\ Len(pending_batch) = 1
    /\ reconstruct_state_at(events, 1) = None
    /\ reconstruct_state_at(events, 3) = Some(events[1].state_hash)

\* C38: a record call that does not trigger a flush (the batch stays below
\* 100) only appends its event to the pending batch and leaves the committed
\* events, the id index and the Merkle tree with its root unchanged; and
\* until the next flush (after every step that leaves events pending) the
\* pending events are not returned by query_events or forensic_export, and
\* verify_event_integrity reports their ids as not found.
C38_PendingIsInvisible ==
    [][ /\ (AnyRecordCall /\ Len(pending_batch) + 1 < 100) =>
              /\ Len(pending_batch') = Len(pending_batch) + 1
              /\ pending_batch'[Len(pending_batch')].id = counter'
              /\ events' = events
              /\ index' = index
              /\ merkle' = merkle
        /\ LET report == forensic_export(events', merkle', "INC-1", now')
           IN  \A j \in 1..Len(pending_batch') :
                  LET id == pending_batch'[j].id
                  IN  /\ \A f \in Filters :
                            LET hits == query_events(events', merkle', f)
                            IN  \A k \in 1..Len(hits) : hits[k].event.id # id
                      /\ \A i \in 1..Len(report.events) :
                            report.events[i].id # id
                      /\ \A i \in 1..Len(report.siem_records) :
                            report.siem_records[i].event_id # id
                      /\ verify_event_integrity(events', index', merkle',
                                                id).kind = "NotFound" ]_vars

\* The third record found one committed and one pending event and left the
\* committed event, the index and the tree as they were.
C38_Witness ==
    /\ last.op = "record" /\ last.val = 3
    /\ Ids(events) = <<1>>
    /\ Ids(pending_batch) = <<2, 3>>
    /\ DOMAIN index = {1}
    /\ IsSome(merkle)
    /\ verify_event_integrity(events, index, merkle, 3).kind = "NotFound"
    /\ verify_event_integrity(events, index, merkle, 1).kind = "Ok"

\* ------------------------------------------------ CLI verify and the library
\* The integrity errors cmd_verify counts: per event a self-hash mismatch, a
\* prev_hash mismatch with the event before it, and for the first event of
\* the report a prev_hash that is not all zero.
cmd_verify_errors(report) ==
    {<<i, "self-hash">> : i \in {k \in 1..Len(report.events) :
          recompute_hash(report.events[k]) # report.events[k].event_hash}}
    \cup
    {<<i, "prev_hash">> : i \in {k \in 2..Len(report.events) :
          report.events[k].prev_hash # report.events[k - 1].event_hash}}
    \cup
    {<<i, "genesis">> : i \in {k \in 1..Len(report.events) :
          k = 1 /\ report.events[k].prev_hash # ZeroHash}}

\* cmd_verify: TRUE when the command prints "Chain intact" and exits 0.
cmd_verify(report) == Cardinality(cmd_verify_errors(report)) = 0

GovGuardianOverride(proof, reason, limit) ==
    /\ LoggedCalls < limit
    /\ LET x == guardian_override(governance, proof, reason, clock_secs)
       IN  SetGovernance("guardian_override", x.gov, x.result)
    /\ UNCHANGED <<cancelled_ops, queued_moment, sealed>>

\* The callers of the multi-sig wrappers on the keyed deployment: the
\* first guardian or an outsider proposes, two more guardians or the
\* outsider approve; the proofs of guardian_override: a guardian's proof,
\* the same with another s, and an outsider's proof.
MirrorSigners == {KeyedGuardians[2], KeyedGuardians[3], Str_mallory}
MirrorProposers == {KeyedGuardians[1], Str_mallory}
MirrorProofs ==
    LET g1 == make_schnorr_proof(GuardianKeys[1], Str_a)
    IN  {g1, [g1 EXCEPT !.s_bytes = Raw(7)],
         make_schnorr_proof(OutsiderKey, Str_a)}
MirrorInput == [description |-> Str_a, payload |-> Str_bc]

\* The seven logged calls of GovernanceContract on one deployment, each with
\* inputs that succeed and inputs that fail.
NextMirror ==
    \/ QueueOperation(MirrorInput, MaxMirrorCalls)
    \/ \E op_id \in OperationIds, payload \in Payloads :
          ExecuteOperation(op_id, payload, MaxMirrorCalls)
    \/ \E op_id \in OperationIds : CancelOperation(op_id, MaxMirrorCalls)
    \/ \E proposer \in MirrorProposers :
          ProposeMultisig(proposer, MirrorInput, MaxMirrorCalls)
    \/ \E pid \in ProposalIds, signer \in MirrorSigners :
          ApproveMultisig(pid, signer, MaxMirrorCalls)
    \/ \E pid \in ProposalIds, payload \in Payloads :
          ExecuteMultisig(pid, payload, MaxMirrorCalls)
    \/ \E proof \in MirrorProofs :
          GovGuardianOverride(proof, Str_x, MaxMirrorCalls)
    \/ Advance(TIMELOCK_DELAY_SECS)

SpecMirror == InitKeyed /\ [][NextMirror]_vars

\* The GovernanceEvent variant each wrapper appends.
LoggedVariant(op) ==
    CASE op = "queue_operation" -> "TimelockQueued"
      [] op = "execute_operation" -> "TimelockExecuted"
      [] op = "cancel_operation" -> "TimelockCancelled"
      [] op = "propose_multisig" -> "ProposalCreated"
      [] op = "approve_multisig" -> "ProposalApproved"
      [] op = "execute_multisig" -> "ProposalExecuted"
      [] op = "guardian_override" -> "GuardianOverride"
      [] OTHER -> "none"

\* What a call leaves behind: the contract and the result handed back
\* (results of different calls hold values of different kinds and are
\* compared as text).  The clock moving on leaves both as they were.
MirrorView == <<governance, ToString(gov_last)>>

\* A step that is one of the seven logged calls.
MirroredCall == LoggedVariant(gov_last'.op) # "none"

LogTypes == [i \in 1..Len(governance.log.entries) |->
                governance.log.entries[i].event.type]

\* C40: each successful queue_operation, execute_operation,
\* cancel_operation, propose_multisig, approve_multisig, execute_multisig
\* and guardian_override appends exactly one entry of the matching variant
\* at the end of the governance log, and a call that returns an error leaves
\* the log, every timelock entry and every proposal as they were.
C40_LogMirrorsCalls ==
    [][MirroredCall =>
         IF gov_last'.result.ok
         THEN /\ Len(governance'.log.entries) = Len(governance.log.entries) + 1
              /\ SubSeq(governance'.log.entries, 1, Len(governance.log.entries))
                     = governance.log.entries
              /\ governance'.log.entries[Len(governance'.log.entries)].event.type
                     = LoggedVariant(gov_last'.op)
              /\ governance'.log.seq = governance.log.seq + 1
         ELSE /\ governance'.log = governance.log
              /\ governance'.timelock = governance.timelock
              /\ governance'.multisig = governance.multisig]_MirrorView

C40_Witness ==
    /\ gov_last.op = "approve_multisig"
    /\ gov_last.result.ok
    /\ LogTypes = <<"ScheduleVerified", "PhaseTransition", "TimelockQueued",
                    "ProposalCreated", "GuardianOverride", "ProposalApproved">>

====
